---- MODULE Spec2Model ----
(***************************************************************************)
(* A model of the Linear webhook server of CLinear-Code.                   *)
(*                                                                         *)
(* A delivery is a POST to /webhook/linear whose body the JSON body parser *)
(* (src/src/index.ts:9) has parsed: the route runs verifyWebhookSignature  *)
(* and then handleLinearWebhook, which answers the request and, for a      *)
(* qualifying comment, starts processClaudeRequest un-awaited.  The        *)
(* repository holds two revisions of processClaudeRequest                  *)
(* (src/unnamed/part_002 and src/src/linear/webhook-handler.ts); the       *)
(* configuration field "variant" selects the one a run uses.               *)
(*                                                                         *)
(* Text is a sequence of one-character strings.  An HMAC is modelled as    *)
(* the pair of its key and its message (a collision-free digest).  A raw   *)
(* request body is a JSON document together with the form of its bytes on  *)
(* the wire: JSON.parse keeps the document only, JSON.stringify writes the *)
(* compact form.                                                           *)
(***************************************************************************)
EXTENDS Integers, Sequences, FiniteSets, TLC

VARIABLES config, tracker, req, log, pc, task, nextUuid, probe, run

vars == <<config, tracker, req, log, pc, task, nextUuid, probe, run>>

\* ------------------------------------------------------------------ bounds

\* Deliveries received in one run of Spec.
MaxDeliveries == 2

\* ------------------------------------------------------------- text helpers

NoVal == "undefined"

\* JavaScript truthiness of an optional string: undefined and "" are falsy.
Truthy(v) == v # NoVal /\ v # ""

\* a || b on optional strings.
OrElse(a, b) == IF Truthy(a) THEN a ELSE b

ToLower(c) ==
  CASE c = "C" -> "c"
    [] c = "L" -> "l"
    [] c = "A" -> "a"
    [] c = "U" -> "u"
    [] c = "D" -> "d"
    [] c = "E" -> "e"
    [] OTHER -> c

\* s has pat at position k (1-based), letters compared as written.
MatchAt(s, pat, k) ==
  /\ k + Len(pat) - 1 <= Len(s)
  /\ \A j \in 1..Len(pat) : s[k + j - 1] = pat[j]

\* String.prototype.includes.
Includes(s, pat) == \E k \in 1..(Len(s) + 1) : MatchAt(s, pat, k)

\* s has pat at position k under the regular expression flag i.
MatchAtNoCase(s, pat, k) ==
  /\ k + Len(pat) - 1 <= Len(s)
  /\ \A j \in 1..Len(pat) : ToLower(s[k + j - 1]) = ToLower(pat[j])

MentionToken == <<"@", "c", "l", "a", "u", "d", "e">>

\* The comment bodies deliveries carry.
BodyMention == <<"@", "c", "l", "a", "u", "d", "e", " ", "f", "i", "x">>
BodyUpper == <<"h", "i", " ", "@", "C", "L", "A", "U", "D", "E">>
BodyMixed == <<"@", "C", "l", "A", "u", "D", "e">>
BodyNoAt == <<"c", "l", "a", "u", "d", "e", " ", "f", "i", "x">>
BodySplit == <<"@", "c", "l", "a", "u", "d", " ", "e">>
BodyEmpty == << >>

Bodies == {BodyMention, BodyUpper, BodyMixed, BodyNoAt, BodySplit, BodyEmpty}

\* ------------------------------------------------------ signature verifier

\* The value of a linear-signature header: the hex digest of msg under key.
Hmac(key, msg) == [present |-> TRUE, key |-> key, msg |-> msg]

JsonParse(raw) == raw.doc

JsonStringify(doc) == [doc |-> doc, form |-> "compact"]

\* The mutant of VerifyWebhookSignature: a request without the header passes.
VerifyAcceptsMissingHeader(secret, r) ==
  IF ~Truthy(secret) THEN "next"
  ELSE IF ~r.sig.present THEN "next"
  ELSE IF r.sig # Hmac(secret, JsonStringify(JsonParse(r.raw))) THEN "Invalid signature"
  ELSE "next"

\* verifyWebhookSignature: "next" when the request goes on to the handler,
\* otherwise the error text of the 401 response.
VerifyWebhookSignature(secret, r) ==
  IF ~Truthy(secret) THEN "next"
  ELSE IF ~r.sig.present THEN "Missing signature"
  ELSE IF r.sig # Hmac(secret, JsonStringify(JsonParse(r.raw))) THEN "Invalid signature"
  ELSE "next"

\* -------------------------------------------------------- payload classifier

WebhookActions == {"create", "update", "remove"}

WebhookTypes == {"Issue", "Comment", "IssueLabel", "Project", "Cycle", "Reaction"}

\* A comment that carries no nested issue object.
NoIssue == [present |-> FALSE, complete |-> FALSE, id |-> NoVal]

\* linearIssueSchema: id, identifier, title and url are present.
IssueSchemaOk(d) == d.issueFields

\* linearCommentSchema: id, body and createdAt are present and a nested issue,
\* when there is one, satisfies linearIssueSchema.
CommentSchemaOk(d) ==
  /\ d.hasBody
  /\ d.issue.present => d.issue.complete

\* linearWebhookPayloadSchema.safeParse.
SchemaOk(doc) ==
  /\ doc.action \in WebhookActions
  /\ doc.type \in WebhookTypes
  /\ doc.createdAt
  /\ (IssueSchemaOk(doc.data) \/ CommentSchemaOk(doc.data))

\* parseResult.data.data: z.union returns the first schema that accepts, and
\* an object schema keeps its own keys only, so data accepted as an issue has
\* no body, issueId or issue.
ParsedData(d) ==
  IF IssueSchemaOk(d)
  THEN [d EXCEPT !.hasBody = FALSE, !.body = << >>, !.issueId = NoVal,
                 !.issue = NoIssue]
  ELSE d

\* The mutant of MentionsClaude: the letters are compared as written.
MentionsClaudeCaseSensitive(body) == Includes(body, MentionToken)

\* mentionsClaude: /@claude/i.test(body).
MentionsClaude(body) ==
  \E k \in 1..(Len(body) + 1) : MatchAtNoCase(body, MentionToken, k)

\* comment.issueId || comment.issue?.id
IssueIdOf(d) == OrElse(d.issueId, IF d.issue.present THEN d.issue.id ELSE NoVal)

\* The mutant of Classify: an event of another type or action is classified
\* like a comment creation.
ClassifyAnyEvent(doc, variant) ==
  IF ~SchemaOk(doc) THEN [status |-> 400, reason |-> "Invalid payload"]
  ELSE LET d == ParsedData(doc.data) IN
    IF ~d.hasBody
    THEN [status |-> 200, reason |-> "Not a comment creation"]
    ELSE IF ~MentionsClaude(d.body)
    THEN [status |-> 200, reason |-> "No @Claude mention"]
    ELSE IF ~Truthy(IssueIdOf(d))
    THEN [status |-> 400, reason |-> "No issue ID found"]
    ELSE [status |-> 202, reason |-> "accepted"]

\* The mutant of Classify: a comment without an issue id is accepted.
ClassifyWithoutIssueId(doc, variant) ==
  IF ~SchemaOk(doc) THEN [status |-> 400, reason |-> "Invalid payload"]
  ELSE IF doc.type # "Comment" \/ doc.action # "create"
  THEN [status |-> 200, reason |-> "Not a comment creation"]
  ELSE LET d == ParsedData(doc.data) IN
    IF ~d.hasBody
    THEN [status |-> 500, reason |-> "Internal server error"]
    ELSE IF ~MentionsClaude(d.body)
    THEN [status |-> 200, reason |-> "No @Claude mention"]
    ELSE [status |-> 202, reason |-> "accepted"]

\* The synchronous part of handleLinearWebhook: the response to a parsed body.
\* Revision "compute" reads comment.body.substring before the mention test, so
\* data without a body throws into the outer catch (500); revision "executor"
\* hands the missing body to the regular expression, which finds no mention.
Classify(doc, variant) ==
  IF ~SchemaOk(doc) THEN [status |-> 400, reason |-> "Invalid payload"]
  ELSE IF doc.type # "Comment" \/ doc.action # "create"
  THEN [status |-> 200, reason |-> "Not a comment creation"]
  ELSE LET d == ParsedData(doc.data) IN
    IF ~d.hasBody
    THEN IF variant = "compute"
         THEN [status |-> 500, reason |-> "Internal server error"]
         ELSE [status |-> 200, reason |-> "No @Claude mention"]
    ELSE IF ~MentionsClaude(d.body)
    THEN [status |-> 200, reason |-> "No @Claude mention"]
    ELSE IF ~Truthy(IssueIdOf(d))
    THEN [status |-> 400, reason |-> "No issue ID found"]
    ELSE [status |-> 202, reason |-> "accepted"]

\* ------------------------------------------------------ repository resolver

Whitespace == {" ", "\n", "\t"}

\* The least index from..Len(s) of a character of stop, or Len(s) + 1.
IndexOfAny(s, stop, from) ==
  IF \E k \in from..Len(s) : s[k] \in stop
  THEN CHOOSE k \in from..Len(s) :
         /\ s[k] \in stop
         /\ \A j \in from..(k - 1) : s[j] \notin stop
  ELSE Len(s) + 1

StartsWith(s, pat) == MatchAt(s, pat, 1)

EndsWith(s, pat) == Len(pat) <= Len(s) /\ MatchAt(s, pat, Len(s) - Len(pat) + 1)

\* s.split('/')[0] and s.split('/')[1]; a missing second part is "".
SplitFirst(s) == SubSeq(s, 1, IndexOfAny(s, {"/"}, 1) - 1)

SplitSecond(s) ==
  LET i == IndexOfAny(s, {"/"}, 1)
  IN  IF i > Len(s) THEN << >>
      ELSE SubSeq(s, i + 1, IndexOfAny(s, {"/"}, i + 1) - 1)

HostPath == <<":", "/", "/", "g", "i", "t", "h", "u", "b", ".", "c", "o", "m", "/">>

GitHubHttps == <<"h", "t", "t", "p", "s">> \o HostPath

GitHubHttp == <<"h", "t", "t", "p">> \o HostPath

DotGit == <<".", "g", "i", "t">>

RepoPrefix == <<"r", "e", "p", "o", ":">>

NoRepository == [present |-> FALSE, url |-> << >>, owner |-> << >>, name |-> << >>]

RepositoryOf(owner, name) ==
  [present |-> TRUE, url |-> GitHubHttps \o owner \o <<"/">> \o name,
   owner |-> owner, name |-> name]

\* The index after https?://github.com/ when the description has it at k, else 0.
UrlPrefixEnd(description, k) ==
  IF MatchAt(description, GitHubHttps, k) THEN k + Len(GitHubHttps)
  ELSE IF MatchAt(description, GitHubHttp, k) THEN k + Len(GitHubHttp)
  ELSE 0

\* /https?:\/\/github\.com\/([^\/\s]+)\/([^\/\s\)]+)/ matches at k: the owner
\* runs to the next slash or whitespace, which must be a slash, and a name
\* character follows.
UrlMatchesAt(description, k) ==
  LET p == UrlPrefixEnd(description, k)
      q == IndexOfAny(description, {"/"} \cup Whitespace, p)
  IN  /\ p > 0
      /\ q > p
      /\ q <= Len(description)
      /\ description[q] = "/"
      /\ q + 1 <= Len(description)
      /\ description[q + 1] \notin ({"/", ")"} \cup Whitespace)

\* The repository of the leftmost match; the name loses a final ".git", the
\* url keeps it.
RepositoryFromDescription(description) ==
  IF \E k \in 1..Len(description) : UrlMatchesAt(description, k)
  THEN LET k == CHOOSE k \in 1..Len(description) :
                  /\ UrlMatchesAt(description, k)
                  /\ \A j \in 1..(k - 1) : ~UrlMatchesAt(description, j)
           p == UrlPrefixEnd(description, k)
           q == IndexOfAny(description, {"/"}, p)
           e == IndexOfAny(description, {"/", ")"} \cup Whitespace, q + 1)
           owner == SubSeq(description, p, q - 1)
           name == SubSeq(description, q + 1, e - 1)
       IN  [present |-> TRUE,
            url |-> GitHubHttps \o owner \o <<"/">> \o name,
            owner |-> owner,
            name |-> IF EndsWith(name, DotGit)
                     THEN SubSeq(name, 1, Len(name) - Len(DotGit))
                     ELSE name]
  ELSE NoRepository

\* const [owner, name] = text.split('/'); if (owner && name) ...
RepositoryFromSlug(text) ==
  IF SplitFirst(text) # << >> /\ SplitSecond(text) # << >>
  THEN RepositoryOf(SplitFirst(text), SplitSecond(text))
  ELSE NoRepository

\* labels.find(l => l.startsWith('repo:')), then the owner/name test.
RepositoryFromLabels(labels) ==
  IF \E k \in 1..Len(labels) : StartsWith(labels[k], RepoPrefix)
  THEN LET k == CHOOSE k \in 1..Len(labels) :
                  /\ StartsWith(labels[k], RepoPrefix)
                  /\ \A j \in 1..(k - 1) : ~StartsWith(labels[j], RepoPrefix)
       IN  RepositoryFromSlug(SubSeq(labels[k], Len(RepoPrefix) + 1, Len(labels[k])))
  ELSE NoRepository

\* extractRepositoryInfo: description, then label, then GITHUB_DEFAULT_REPO
\* (the empty text when it is not configured).
ExtractRepositoryInfo(description, labels, defaultRepo) ==
  IF RepositoryFromDescription(description).present
  THEN RepositoryFromDescription(description)
  ELSE IF RepositoryFromLabels(labels).present
  THEN RepositoryFromLabels(labels)
  ELSE IF defaultRepo # << >>
  THEN RepositoryFromSlug(defaultRepo)
  ELSE NoRepository

\* ------------------------------------------------------------ configuration

\* COMPUTE_PROVIDER values the configuration schema accepts.
ConfigProviders == {"local", "fly", "cloudflare", "modal"}

\* The two revisions of the webhook handler: "compute" is src/unnamed/part_002
\* (getComputeProvider), "executor" is src/src/linear/webhook-handler.ts
\* (executeClaudeTask).
Variants == {"compute", "executor"}

SlugDE == <<"d", "/", "e">>

\* ------------------------------------------------------------------ requests

Ev(ev, kind, code) == [ev |-> ev, kind |-> kind, code |-> code]

NoHeader(raw) == [present |-> FALSE, key |-> NoVal, msg |-> raw]

CommentData(id, body, issueId, issue) ==
  [issueFields |-> FALSE, id |-> id, hasBody |-> TRUE, body |-> body,
   issueId |-> issueId, issue |-> issue]

IssueData(id) ==
  [issueFields |-> TRUE, id |-> id, hasBody |-> FALSE, body |-> << >>,
   issueId |-> NoVal, issue |-> NoIssue]

Doc(type, action, data) ==
  [type |-> type, action |-> action, createdAt |-> TRUE, data |-> data]

Compact(doc) == [doc |-> doc, form |-> "compact"]

Signed(key, raw) == [sig |-> Hmac(key, raw), raw |-> raw]

Unsigned(raw) == [sig |-> NoHeader(raw), raw |-> raw]

\* The deliveries of Spec: qualifying comments on issue I1 (trigger comment c1,
\* which the tracker lists, or c2, which it does not), one of them unsigned, and
\* a comment without the mention.
Deliveries ==
  { Signed("k1", Compact(Doc("Comment", "create", CommentData("c1", BodyMention, "I1", NoIssue)))),
    Unsigned(Compact(Doc("Comment", "create", CommentData("c1", BodyMention, "I1", NoIssue)))),
    Signed("k1", Compact(Doc("Comment", "create", CommentData("c2", BodyUpper, "I1", NoIssue)))),
    Signed("k1", Compact(Doc("Comment", "create", CommentData("c1", BodyNoAt, "I1", NoIssue)))) }

\* The deliveries of SpecHttp: every combination of the fields the verifier
\* and the classifier read.
WireTypes == WebhookTypes \cup {"Document"}

WireActions == WebhookActions \cup {"restore"}

WireIssues ==
  { NoIssue,
    [present |-> TRUE, complete |-> TRUE, id |-> "I2"],
    [present |-> TRUE, complete |-> FALSE, id |-> "I2"] }

WireData ==
  { [issueFields |-> f, id |-> "c1", hasBody |-> TRUE, body |-> b,
     issueId |-> ii, issue |-> is] :
      f \in BOOLEAN, b \in Bodies, ii \in {NoVal, "", "I1"}, is \in WireIssues }
  \cup
  { [issueFields |-> f, id |-> "c1", hasBody |-> FALSE, body |-> << >>,
     issueId |-> ii, issue |-> is] :
      f \in BOOLEAN, ii \in {NoVal, "", "I1"}, is \in WireIssues }

WireDocs ==
  { [type |-> t, action |-> a, createdAt |-> c, data |-> d] :
      t \in WireTypes, a \in WireActions, c \in BOOLEAN, d \in WireData }

WireForms == {"compact", "spaced"}

WireRaws == { [doc |-> d, form |-> f] : d \in WireDocs, f \in WireForms }

\* The headers a sender may attach to raw: none, the digest of the bytes it
\* sent, the digest of the compact form, or a digest under another key.
WireHeaders(raw) ==
  { NoHeader(raw), Hmac("k1", raw), Hmac("k1", Compact(raw.doc)), Hmac("k2", raw) }

\* ------------------------------------------------------------------- handler

NoTask ==
  [issueId |-> NoVal, commentId |-> NoVal, repository |-> FALSE,
   workDir |-> 0, outcome |-> NoVal]

\* The mutant of HandleLinearWebhook: the task is started, and its first
\* tracker call made, before the response is sent.
HandleStartsTaskFirst(doc, variant) ==
  LET c == Classify(doc, variant)
  IN  [started |-> c.status = 202,
       events |->
         IF c.status = 202
         THEN <<Ev("spawn", "processClaudeRequest", 0),
                Ev("call", "addComment", 0),
                Ev("respond", c.reason, c.status)>>
         ELSE <<Ev("respond", c.reason, c.status)>>]

\* handleLinearWebhook up to its return: the response, then for an accepted
\* comment the un-awaited call of processClaudeRequest, which runs up to its
\* first await, the acknowledgment's addComment call.
HandleLinearWebhook(doc, variant) ==
  LET c == Classify(doc, variant)
  IN  [started |-> c.status = 202,
       events |->
         IF c.status = 202
         THEN <<Ev("respond", c.reason, c.status),
                Ev("spawn", "processClaudeRequest", 0),
                Ev("call", "addComment", 0)>>
         ELSE <<Ev("respond", c.reason, c.status)>>]

\* The route: verifyWebhookSignature, then handleLinearWebhook.
RouteEvents(r) ==
  LET v == VerifyWebhookSignature(config.secret, r)
  IN  IF v # "next"
      THEN <<Ev("respond", v, 401)>>
      ELSE <<Ev("next", "handleLinearWebhook", 0)>>
             \o HandleLinearWebhook(JsonParse(r.raw), config.variant).events

\* The mutant of RouteStartsTask: a delivery starts no task when an earlier
\* one was started for the same comment.
RouteStartsTaskOnce(r) ==
  /\ VerifyWebhookSignature(config.secret, r) = "next"
  /\ HandleLinearWebhook(JsonParse(r.raw), config.variant).started
  /\ \A j \in DOMAIN task :
       task[j].commentId # ParsedData(JsonParse(r.raw).data).id

\* The route called processClaudeRequest for r.
RouteStartsTask(r) ==
  /\ VerifyWebhookSignature(config.secret, r) = "next"
  /\ HandleLinearWebhook(JsonParse(r.raw), config.variant).started

Receive(r) ==
  /\ req' = Append(req, r)
  /\ log' = Append(log, RouteEvents(r))
  /\ pc' = Append(pc, IF RouteStartsTask(r) THEN "ack" ELSE "idle")
  /\ task' = Append(task,
       IF RouteStartsTask(r)
       THEN [NoTask EXCEPT !.issueId = IssueIdOf(ParsedData(JsonParse(r.raw).data)),
                           !.commentId = ParsedData(JsonParse(r.raw).data).id]
       ELSE NoTask)
  /\ UNCHANGED <<config, tracker, nextUuid, probe, run>>

\* POST /webhook/linear.
PostWebhook ==
  /\ Len(req) < MaxDeliveries
  /\ \E r \in Deliveries : Receive(r)

\* --------------------------------------------------- processClaudeRequest

\* A step of task i: the awaited call returns, its event is logged and the
\* function runs on to its next await.
Step(i, event, next) ==
  /\ log' = [log EXCEPT ![i] = Append(@, event)]
  /\ pc' = [pc EXCEPT ![i] = next]

Flag(ok) == IF ok THEN 1 ELSE 0

\* Where the task goes when the acknowledgment's addComment settles: part_002
\* catches a failure (154-166), webhook-handler.ts lets it reach the outer
\* catch (125-128, 188).
AfterAck(variant, ok) ==
  IF ok \/ variant = "compute" THEN "context" ELSE "errpost"

AckReturns(i) ==
  /\ pc[i] = "ack"
  /\ \E ok \in BOOLEAN :
       Step(i, Ev("addComment", "ack", Flag(ok)), AfterAck(config.variant, ok))
  /\ UNCHANGED <<config, tracker, req, task, nextUuid, probe, run>>

\* What getIssueContext can do for a trigger comment: fail in the tracker API,
\* or return a context when the issue's comments hold the trigger comment and
\* throw "not found" when they do not.
ContextOutcomes(commentId) ==
  {"apierror"} \cup (IF commentId \in tracker.commentIds THEN {"ok"} ELSE {"notfound"})

\* getComputeProvider: the provider it returns, or "throw".
GetComputeProvider(provider) ==
  IF provider \in {"local", "sprites"} THEN provider ELSE "throw"

\* The mutant of AfterContext: a trigger comment that was not found does not
\* stop the task.
AfterContextIgnoresNotFound(variant, provider, outcome, hasRepository) ==
  IF outcome = "apierror" THEN "errpost"
  ELSE IF variant = "compute"
  THEN IF GetComputeProvider(provider) = "throw" THEN "errpost" ELSE "exec"
  ELSE IF hasRepository THEN "exec" ELSE "norepo"

\* Where the task goes when getIssueContext settles.  part_002 goes on to
\* getComputeProvider and executeTask whether or not the context has a
\* repository; webhook-handler.ts posts "Could not determine repository" and
\* returns when it has none.
AfterContext(variant, provider, outcome, hasRepository) ==
  IF outcome # "ok" THEN "errpost"
  ELSE IF variant = "compute"
  THEN IF GetComputeProvider(provider) = "throw" THEN "errpost" ELSE "exec"
  ELSE IF hasRepository THEN "exec" ELSE "norepo"

ContextReturns(i) ==
  /\ pc[i] = "context"
  /\ \E outcome \in ContextOutcomes(task[i].commentId) :
       LET repo == ExtractRepositoryInfo(tracker.description, tracker.labels,
                                         config.defaultRepo)
       IN  /\ Step(i, Ev("getIssueContext", outcome, Flag(outcome = "ok")),
                   AfterContext(config.variant, config.provider, outcome, repo.present))
           /\ task' = [task EXCEPT ![i].repository = outcome = "ok" /\ repo.present]
  /\ UNCHANGED <<config, tracker, req, nextUuid, probe, run>>

\* How a run of the tool in a fresh working directory can end: the parsed
\* result reports success or failure, git clone fails (only with a
\* repository), spawning the tool fails, or the 30 minute timer expires.
ExecOutcomes(hasRepository) ==
  {"success", "toolFailed", "spawnFailed", "timeout"}
    \cup (IF hasRepository THEN {"cloneFailed"} ELSE {})

\* LocalComputeProvider.executeTask / executeClaudeTask: the task gets the
\* working directory WORK_DIR/<uuid> and a result; neither function rejects.
ExecReturns(i) ==
  /\ pc[i] = "exec"
  /\ \E outcome \in ExecOutcomes(task[i].repository) :
       /\ Step(i, Ev("executeTask", outcome, nextUuid), "post")
       /\ task' = [task EXCEPT ![i].workDir = nextUuid, ![i].outcome = outcome]
  /\ nextUuid' = nextUuid + 1
  /\ UNCHANGED <<config, tracker, req, probe, run>>

\* The mutant of AfterResultPost: the error comment follows a result comment
\* that was posted.
AfterResultPostAlsoReportsError(variant, ok) == "errpost"

\* Where the task goes when the result's addComment settles: part_002 catches
\* a failure (242-249), in webhook-handler.ts it reaches the outer catch
\* (171, 185, 188).
AfterResultPost(variant, ok) ==
  IF ok \/ variant = "compute" THEN "done" ELSE "errpost"

ResultPostReturns(i) ==
  /\ pc[i] = "post"
  /\ \E ok \in BOOLEAN :
       Step(i, Ev("addComment", "result", Flag(ok)), AfterResultPost(config.variant, ok))
  /\ UNCHANGED <<config, tracker, req, task, nextUuid, probe, run>>

\* webhook-handler.ts 133-139: the "Could not determine repository" comment,
\* awaited inside the try block.
NoRepositoryPostReturns(i) ==
  /\ pc[i] = "norepo"
  /\ \E ok \in BOOLEAN :
       Step(i, Ev("addComment", "norepo", Flag(ok)), IF ok THEN "done" ELSE "errpost")
  /\ UNCHANGED <<config, tracker, req, task, nextUuid, probe, run>>

\* The outer catch: the "Unexpected Error" comment, whose failure is logged.
ErrorPostReturns(i) ==
  /\ pc[i] = "errpost"
  /\ \E ok \in BOOLEAN :
       Step(i, Ev("addComment", "error", Flag(ok)), "done")
  /\ UNCHANGED <<config, tracker, req, task, nextUuid, probe, run>>

TaskStep(i) ==
  \/ AckReturns(i)
  \/ ContextReturns(i)
  \/ ExecReturns(i)
  \/ ResultPostReturns(i)
  \/ NoRepositoryPostReturns(i)
  \/ ErrorPostReturns(i)

\* --------------------------------------------------------- parseClaudeOutput

\* The least index k >= from at which s has pat, or 0.
FirstIndexOf(s, pat, from) ==
  IF \E k \in from..Len(s) : MatchAt(s, pat, k)
  THEN CHOOSE k \in from..Len(s) :
         /\ MatchAt(s, pat, k)
         /\ \A j \in from..(k - 1) : ~MatchAt(s, pat, j)
  ELSE 0

\* s without its leading and trailing whitespace (what the \s* on both sides
\* of the capture group consume).
TrimText(s) ==
  IF \A k \in 1..Len(s) : s[k] \in Whitespace THEN << >>
  ELSE LET a == CHOOSE k \in 1..Len(s) :
                  /\ s[k] \notin Whitespace
                  /\ \A j \in 1..(k - 1) : s[j] \in Whitespace
           b == CHOOSE k \in 1..Len(s) :
                  /\ s[k] \notin Whitespace
                  /\ \A j \in (k + 1)..Len(s) : s[j] \in Whitespace
       IN  SubSeq(s, a, b)

\* output.slice(-n).
SliceLast(s, n) == IF Len(s) <= n THEN s ELSE SubSeq(s, Len(s) - n + 1, Len(s))

\* An optional text: a field of a result or of a parsed object.
Absent == [present |-> FALSE, text |-> << >>]

Text(t) == [present |-> TRUE, text |-> t]

\* JSON values: a boolean, a string, or undefined (a field that is not there).
Undefined == [kind |-> "undefined", b |-> FALSE, text |-> << >>]

JsonBool(b) == [kind |-> "bool", b |-> b, text |-> << >>]

JsonString(t) == [kind |-> "string", b |-> FALSE, text |-> t]

\* The fields of a parsed object that parseClaudeOutput reads.
NoFields ==
  [success |-> Undefined, prUrl |-> Undefined, summary |-> Undefined,
   error |-> Undefined]

FieldNames ==
  [success |-> <<"s", "u", "c", "c", "e", "s", "s">>, prUrl |-> <<"p", "r", "U", "r", "l">>, summary |-> <<"s", "u", "m", "m", "a", "r", "y">>,
   error |-> <<"e", "r", "r", "o", "r">>]

\* obj[key] = val for a key parseClaudeOutput reads; other keys are dropped.
SetField(obj, key, val) ==
  [f \in DOMAIN obj |-> IF FieldNames[f] = key THEN val ELSE obj[f]]

\* The index of the first character of s at or after p that is not whitespace.
SkipWs(s, p) ==
  IF \E k \in p..Len(s) : s[k] \notin Whitespace
  THEN CHOOSE k \in p..Len(s) :
         /\ s[k] \notin Whitespace
         /\ \A j \in p..(k - 1) : s[j] \in Whitespace
  ELSE Len(s) + 1

JsonFail == [ok |-> FALSE, val |-> Undefined, next |-> 0]

\* A JSON string without escapes starting at the quote at p: its text and the
\* index after the closing quote.
JsonStringAt(s, p) ==
  IF p <= Len(s) /\ s[p] = "\"" /\ \E k \in (p + 1)..Len(s) : s[k] = "\""
  THEN LET q == IndexOfAny(s, {"\""}, p + 1)
       IN  IF \E j \in (p + 1)..(q - 1) : s[j] \in {"\n", "\\"}
           THEN JsonFail
           ELSE [ok |-> TRUE, val |-> JsonString(SubSeq(s, p + 1, q - 1)),
                 next |-> q + 1]
  ELSE JsonFail

\* A JSON value at p: true, false or a string.
JsonValueAt(s, p) ==
  IF MatchAt(s, <<"t", "r", "u", "e">>, p) THEN [ok |-> TRUE, val |-> JsonBool(TRUE), next |-> p + 4]
  ELSE IF MatchAt(s, <<"f", "a", "l", "s", "e">>, p) THEN [ok |-> TRUE, val |-> JsonBool(FALSE), next |-> p + 5]
  ELSE JsonStringAt(s, p)

RECURSIVE JsonMembersAt(_, _, _)
\* The members of an object from p on (p is the index of a key), added to obj:
\* "key" : value, then a comma and more members or the closing brace, after
\* which only whitespace may follow.
JsonMembersAt(s, p, obj) ==
  LET key == JsonStringAt(s, p)
      colon == SkipWs(s, key.next)
      val == JsonValueAt(s, SkipWs(s, colon + 1))
      after == SkipWs(s, val.next)
  IN  IF ~key.ok \/ colon > Len(s) \/ s[colon] # ":" THEN [ok |-> FALSE, obj |-> NoFields]
      ELSE IF ~val.ok \/ after > Len(s) THEN [ok |-> FALSE, obj |-> NoFields]
      ELSE IF s[after] = "}"
      THEN [ok |-> SkipWs(s, after + 1) > Len(s),
            obj |-> SetField(obj, key.val.text, val.val)]
      ELSE IF s[after] = ","
      THEN JsonMembersAt(s, SkipWs(s, after + 1), SetField(obj, key.val.text, val.val))
      ELSE [ok |-> FALSE, obj |-> NoFields]

\* JSON.parse(text) followed by the reads of result.success, result.prUrl,
\* result.summary and result.error: ok is FALSE when JSON.parse throws.  The
\* grammar is objects of string and boolean members, and bare strings and
\* booleans, whose property reads all give undefined.
JsonParseText(text) ==
  LET p == SkipWs(text, 1)
  IN  IF p > Len(text) THEN [ok |-> FALSE, obj |-> NoFields]
      ELSE IF text[p] = "{"
      THEN IF SkipWs(text, p + 1) <= Len(text) /\ text[SkipWs(text, p + 1)] = "}"
           THEN [ok |-> SkipWs(text, SkipWs(text, p + 1) + 1) > Len(text),
                 obj |-> NoFields]
           ELSE JsonMembersAt(text, SkipWs(text, p + 1), NoFields)
      ELSE LET v == JsonValueAt(text, p)
           IN  [ok |-> v.ok /\ SkipWs(text, v.next) > Len(text), obj |-> NoFields]

\* A code fence: three backquotes.  A TLA+ string cannot hold a backquote, so
\* the character is written "BACKQUOTE".
Fence == <<"BACKQUOTE", "BACKQUOTE", "BACKQUOTE">>

FenceJson == <<"BACKQUOTE", "BACKQUOTE", "BACKQUOTE", "j", "s", "o", "n">>

\* output.match(/<fence>json\s*([\s\S]*?)\s*<fence>/): the leftmost fence
\* with "json" that has a fence after it, and between the two the text without
\* the whitespace around it.
JsonBlock(output) ==
  LET k == FirstIndexOf(output, FenceJson, 1)
      j == IF k = 0 THEN 0 ELSE FirstIndexOf(output, Fence, k + Len(FenceJson))
  IN  IF k = 0 \/ j = 0 THEN Absent
      ELSE Text(TrimText(SubSeq(output, k + Len(FenceJson), j - 1)))

Digits == {"0", "1", "2", "3", "4", "5", "6", "7", "8", "9"}

PullPrefix == <<"h", "t", "t", "p", "s", ":", "/", "/", "g", "i", "t", "h", "u", "b", ".", "c", "o", "m", "/">>

PullSegment == <<"p", "u", "l", "l", "/">>

\* The index of the last character of a match of
\* /https:\/\/github\.com\/[^\/]+\/[^\/]+\/pull\/\d+/ that starts at k, or 0.
PullUrlEndAt(output, k) ==
  IF ~MatchAt(output, PullPrefix, k) THEN 0
  ELSE LET p == k + Len(PullPrefix)
           q == IndexOfAny(output, {"/"}, p)
           r == IndexOfAny(output, {"/"}, q + 1)
           d == r + 1 + Len(PullSegment)
       IN  IF q = p \/ q > Len(output) \/ r = q + 1 \/ r > Len(output) THEN 0
           ELSE IF ~MatchAt(output, PullSegment, r + 1) THEN 0
           ELSE IF d > Len(output) \/ output[d] \notin Digits THEN 0
           ELSE CHOOSE e \in d..Len(output) :
                  /\ \A j \in d..e : output[j] \in Digits
                  /\ e = Len(output) \/ output[e + 1] \notin Digits

\* output.match(<pull request URL>): the text of the leftmost match.
PullUrlMatch(output) ==
  IF \E k \in 1..Len(output) : PullUrlEndAt(output, k) > 0
  THEN LET k == CHOOSE k \in 1..Len(output) :
                  /\ PullUrlEndAt(output, k) > 0
                  /\ \A j \in 1..(k - 1) : PullUrlEndAt(output, j) = 0
       IN  Text(SubSeq(output, k, PullUrlEndAt(output, k)))
  ELSE Absent

\* Lengths of the trailing slices kept as summary.
ErrorSummaryTail == 1000

UnparsedSummaryTail == 500

ParsedFromOutput ==
  <<"I", "m", "p", "l", "e", "m", "e", "n", "t", "a", "t", "i", "o", "n", " ", "c", "o", "m", "p", "l", "e", "t", "e", "d", " ", "(", "r", "e", "s", "u", "l", "t", " ", "p", "a", "r", "s", "e", "d", " ", "f", "r", "o", "m", " ", "o", "u", "t", "p", "u", "t", ")">>

EncounteredErrors == <<"C", "l", "a", "u", "d", "e", " ", "C", "o", "d", "e", " ", "e", "n", "c", "o", "u", "n", "t", "e", "r", "e", "d", " ", "e", "r", "r", "o", "r", "s", " ", "d", "u", "r", "i", "n", "g", " ", "e", "x", "e", "c", "u", "t", "i", "o", "n">>

CouldNotParse ==
  <<"C", "o", "u", "l", "d", " ", "n", "o", "t", " ", "p", "a", "r", "s", "e", " ", "C", "l", "a", "u", "d", "e", " ", "o", "u", "t", "p", "u", "t", " ", "-", " ", "n", "o", " ", "r", "e", "s", "u", "l", "t", " ", "J", "S", "O", "N", " ", "o", "r", " ", "P", "R", " ", "U", "R", "L", " ", "f", "o", "u", "n", "d">>

\* A ClaudeTaskResult: success, prUrl, summary and error (branch, assumptions
\* and questions are copied like prUrl and are left out).
TaskResult(success, prUrl, summary, error) ==
  [success |-> success, prUrl |-> prUrl, summary |-> summary, error |-> error]

\* The result built from a parsed object: success ?? false, the others as read.
ResultOfObject(obj) ==
  TaskResult(IF obj.success.kind = "undefined" THEN JsonBool(FALSE) ELSE obj.success,
             obj.prUrl, obj.summary, obj.error)

HasFailureToken(output) ==
  \/ Includes(output, <<"e", "r", "r", "o", "r">>)
  \/ Includes(output, <<"f", "a", "i", "l", "e", "d">>)
  \/ Includes(output, <<"E", "r", "r", "o", "r">>)

\* The mutant of ParseClaudeOutput: failure tokens are looked for before the
\* pull request URL.
ParseTokensFirst(output) ==
  IF JsonBlock(output).present /\ JsonParseText(JsonBlock(output).text).ok
  THEN ResultOfObject(JsonParseText(JsonBlock(output).text).obj)
  ELSE IF HasFailureToken(output)
  THEN TaskResult(JsonBool(FALSE), Undefined,
                  JsonString(SliceLast(output, ErrorSummaryTail)),
                  JsonString(EncounteredErrors))
  ELSE IF PullUrlMatch(output).present
  THEN TaskResult(JsonBool(TRUE), JsonString(PullUrlMatch(output).text),
                  JsonString(ParsedFromOutput), Undefined)
  ELSE TaskResult(JsonBool(FALSE), Undefined,
                  JsonString(SliceLast(output, UnparsedSummaryTail)),
                  JsonString(CouldNotParse))

\* The mutant of ParseClaudeOutput: both kinds of failure keep the same slice.
ParseSameSlice(output) ==
  IF JsonBlock(output).present /\ JsonParseText(JsonBlock(output).text).ok
  THEN ResultOfObject(JsonParseText(JsonBlock(output).text).obj)
  ELSE IF PullUrlMatch(output).present
  THEN TaskResult(JsonBool(TRUE), JsonString(PullUrlMatch(output).text),
                  JsonString(ParsedFromOutput), Undefined)
  ELSE IF HasFailureToken(output)
  THEN TaskResult(JsonBool(FALSE), Undefined,
                  JsonString(SliceLast(output, UnparsedSummaryTail)),
                  JsonString(EncounteredErrors))
  ELSE TaskResult(JsonBool(FALSE), Undefined,
                  JsonString(SliceLast(output, UnparsedSummaryTail)),
                  JsonString(CouldNotParse))

\* parseClaudeOutput: the first fenced json block when JSON.parse accepts it,
\* else the first pull request URL, else the failure tokens, else "could not
\* parse".
ParseClaudeOutput(output) ==
  IF JsonBlock(output).present /\ JsonParseText(JsonBlock(output).text).ok
  THEN ResultOfObject(JsonParseText(JsonBlock(output).text).obj)
  ELSE IF PullUrlMatch(output).present
  THEN TaskResult(JsonBool(TRUE), JsonString(PullUrlMatch(output).text),
                  JsonString(ParsedFromOutput), Undefined)
  ELSE IF HasFailureToken(output)
  THEN TaskResult(JsonBool(FALSE), Undefined,
                  JsonString(SliceLast(output, ErrorSummaryTail)),
                  JsonString(EncounteredErrors))
  ELSE TaskResult(JsonBool(FALSE), Undefined,
                  JsonString(SliceLast(output, UnparsedSummaryTail)),
                  JsonString(CouldNotParse))

\* --------------------------------------------------- compute providers

\* The provider classes: LocalComputeProvider and SpritesComputeProvider.
ProviderClasses == {"local", "sprites"}

\* No executeTask call is being followed.
NoRun ==
  [provider |-> "none", hasRepository |-> FALSE, pc |-> "off", steps |-> << >>,
   workspace |-> "none", output |-> << >>, exit |-> "none",
   result |-> TaskResult(Undefined, Undefined, Undefined, Undefined)]

\* A call of executeTask about to start.
NewRun(provider, hasRepository) ==
  [NoRun EXCEPT !.provider = provider, !.hasRepository = hasRepository,
                !.pc = "start"]

\* if (result.success): JavaScript truthiness of a JSON value.
TruthyValue(v) ==
  \/ v.kind = "bool" /\ v.b
  \/ v.kind = "string" /\ v.text # << >>

\* { success: false, error: <message> }.
FailureResult(message) ==
  TaskResult(JsonBool(FALSE), Undefined, Undefined, JsonString(message))

NoRepositoryConfigured == <<"N", "o", " ", "r", "e", "p", "o", "s", "i", "t", "o", "r", "y", " ", "c", "o", "n", "f", "i", "g", "u", "r", "e", "d">>

CommandFailed == <<"C", "o", "m", "m", "a", "n", "d", " ", "f", "a", "i", "l", "e", "d", " ", "w", "i", "t", "h", " ", "c", "o", "d", "e", " ", "1", ":", " ">>

SpriteCommandFailed == <<"S", "p", "r", "i", "t", "e", " ", "c", "o", "m", "m", "a", "n", "d", " ", "f", "a", "i", "l", "e", "d", " ", "w", "i", "t", "h", " ", "c", "o", "d", "e", " ", "1", ":", " ">>

SpawnFailed == <<"s", "p", "a", "w", "n", " ", "E", "N", "O", "E", "N", "T">>

WriteFailed == <<"E", "N", "O", "S", "P", "C", ":", " ", "n", "o", " ", "s", "p", "a", "c", "e", " ", "l", "e", "f", "t", " ", "o", "n", " ", "d", "e", "v", "i", "c", "e">>

LocalTimedOut == <<"C", "l", "a", "u", "d", "e", " ", "C", "o", "d", "e", " ", "t", "i", "m", "e", "d", " ", "o", "u", "t", " ", "a", "f", "t", "e", "r", " ", "3", "0", " ", "m", "i", "n", "u", "t", "e", "s">>

SpriteTimedOut == <<"S", "p", "r", "i", "t", "e", " ", "c", "o", "m", "m", "a", "n", "d", " ", "t", "i", "m", "e", "d", " ", "o", "u", "t", " ", "a", "f", "t", "e", "r", " ", "1", "8", "0", "0", "0", "0", "0", "m", "s">>

\* A step of the run: its name and how it ended: "ok", "failed" (a command or
\* file operation rejected), "spawnError" or "timeout".
Did(name, how) == [name |-> name, how |-> how]

\* The mutant of NextStep: the clone and identity steps are never skipped.
NextStepNeverSkips(provider, hasRepository, step) ==
  IF provider = "local"
  THEN CASE step = "create" -> "clone"
         [] step = "clone" -> "identity"
         [] step = "identity" -> "prompt"
         [] step = "prompt" -> "spawn"
         [] OTHER -> "collect"
  ELSE CASE step = "create" -> "identity"
         [] step = "identity" -> "clone"
         [] step = "clone" -> "prompt"
         [] step = "prompt" -> "spawn"
         [] OTHER -> "collect"

\* The step after a successful one.  local.ts: mkdir, then clone and git
\* identity when there is a repository, prompt.txt, the tool.  sprites.ts:
\* create, git identity, clone, prompt, the tool.
NextStep(provider, hasRepository, step) ==
  IF provider = "local"
  THEN CASE step = "create" -> IF hasRepository THEN "clone" ELSE "prompt"
         [] step = "clone" -> "identity"
         [] step = "identity" -> "prompt"
         [] step = "prompt" -> "spawn"
         [] OTHER -> "collect"
  ELSE CASE step = "create" -> "identity"
         [] step = "identity" -> "clone"
         [] step = "clone" -> "prompt"
         [] step = "prompt" -> "spawn"
         [] OTHER -> "collect"

\* The mutant of AfterFailure: the local provider also cleans up after a
\* failed step.
AfterFailureCleansUp(provider) == "cleanup"

\* The mutant of AfterFailure: no provider cleans up after a failed step.
AfterFailureReturns(provider) == "returned"

\* Where a rejected step leads: the catch block of local.ts (67-73) returns,
\* the one of sprites.ts (95-105) deletes the sprite first.
AfterFailure(provider) == IF provider = "local" THEN "returned" ELSE "cleanup"

\* The mutant of AfterCollect: the local provider removes the working
\* directory whatever the result.
AfterCollectAlwaysCleansUp(provider, result) == "cleanup"

\* After parseClaudeOutput: local.ts removes the working directory when
\* result.success is truthy (58-63), sprites.ts always deletes the sprite (91).
AfterCollect(provider, result) ==
  IF provider = "sprites" \/ TruthyValue(result.success) THEN "cleanup"
  ELSE "returned"

\* The step at run.pc settles: it succeeded, or it rejected with message.
Settle(step, how, message) ==
  run' = [run EXCEPT
    !.steps = Append(@, Did(step, how)),
    !.workspace = IF step = "create" /\ how = "ok" THEN "exists" ELSE @,
    !.pc = IF how = "ok" THEN NextStep(run.provider, run.hasRepository, step)
           ELSE AfterFailure(run.provider),
    !.result = IF how = "ok" THEN @ ELSE FailureResult(message)]

Others == <<config, tracker, req, log, pc, task, nextUuid, probe>>

\* The start of executeTask: sprites.ts returns at once without a repository
\* (19-24); otherwise the workspace name is chosen and the try block entered.
RunStart ==
  /\ run.pc = "start"
  /\ run' = IF run.provider = "sprites" /\ ~run.hasRepository
            THEN [run EXCEPT !.pc = "returned",
                             !.result = FailureResult(NoRepositoryConfigured)]
            ELSE [run EXCEPT !.pc = "create"]
  /\ UNCHANGED Others

\* fs.mkdir(workDir) / sprite create.
RunCreate ==
  /\ run.pc = "create"
  /\ \E how \in {"ok", "failed"} :
       Settle("create", how,
              IF run.provider = "local" THEN WriteFailed ELSE SpriteCommandFailed)
  /\ UNCHANGED Others

\* git clone.
RunClone ==
  /\ run.pc = "clone"
  /\ \E how \in {"ok", "failed"} :
       Settle("clone", how,
              IF run.provider = "local" THEN CommandFailed ELSE SpriteCommandFailed)
  /\ UNCHANGED Others

\* git config user.email, user.name (and remote set-url in local.ts).
RunIdentity ==
  /\ run.pc = "identity"
  /\ \E how \in {"ok", "failed"} :
       Settle("identity", how,
              IF run.provider = "local" THEN CommandFailed ELSE SpriteCommandFailed)
  /\ UNCHANGED Others

\* buildPrompt and the write of prompt.txt.
RunPrompt ==
  /\ run.pc = "prompt"
  /\ \E how \in {"ok", "failed"} :
       Settle("prompt", how,
              IF run.provider = "local" THEN WriteFailed ELSE SpriteCommandFailed)
  /\ UNCHANGED Others

\* What the tool prints in the runs of SpecExec.
ExecOutputs ==
  { <<"BACKQUOTE", "BACKQUOTE", "BACKQUOTE", "j", "s", "o", "n", "\n", "{", "\"", "s", "u", "c", "c", "e", "s", "s", "\"", ":", " ", "t", "r", "u", "e", ",", " ", "\"", "p", "r", "U", "r", "l", "\"", ":", " ", "\"", "h", "t", "t", "p", "s", ":", "/", "/", "g", "i", "t", "h", "u", "b", ".", "c", "o", "m", "/", "a", "/", "b", "/", "p", "u", "l", "l", "/", "7", "\"", "}", "\n", "BACKQUOTE", "BACKQUOTE", "BACKQUOTE">>,
    <<"BACKQUOTE", "BACKQUOTE", "BACKQUOTE", "j", "s", "o", "n", "\n", "{", "\"", "s", "u", "c", "c", "e", "s", "s", "\"", ":", " ", "f", "a", "l", "s", "e", ",", " ", "\"", "e", "r", "r", "o", "r", "\"", ":", " ", "\"", "n", "o", "\"", "}", "\n", "BACKQUOTE", "BACKQUOTE", "BACKQUOTE">>,
    <<"C", "r", "e", "a", "t", "e", "d", " ", "P", "R", " ", "a", "t", " ", "h", "t", "t", "p", "s", ":", "/", "/", "g", "i", "t", "h", "u", "b", ".", "c", "o", "m", "/", "a", "/", "b", "/", "p", "u", "l", "l", "/", "1", "2">>,
    <<"BACKQUOTE", "BACKQUOTE", "BACKQUOTE", "j", "s", "o", "n", "\n", "{", "o", "o", "p", "s", "}", "\n", "BACKQUOTE", "BACKQUOTE", "BACKQUOTE", "\n", "P", "R", ":", " ", "h", "t", "t", "p", "s", ":", "/", "/", "g", "i", "t", "h", "u", "b", ".", "c", "o", "m", "/", "a", "/", "b", "/", "p", "u", "l", "l", "/", "5">>,
    <<"BACKQUOTE", "BACKQUOTE", "BACKQUOTE", "j", "s", "o", "n", "\n", "{", "\"", "s", "u", "m", "m", "a", "r", "y", "\"", ":", " ", "\"", "n", "o", "t", "h", "i", "n", "g", " ", "t", "o", " ", "d", "o", "\"", "}", "\n", "BACKQUOTE", "BACKQUOTE", "BACKQUOTE">>,
    <<"e", "r", "r", "o", "r", ":", " ", "i", "t", " ", "f", "a", "i", "l", "e", "d">>,
    <<"d", "o", "n", "e">> }

\* The exit code of the tool as the close handlers test it: code === 0 or not.
ExitOf(code) == IF code = 0 THEN "zero" ELSE "nonzero"

\* The run of the tool: it closes with exit code 0 or another code and its
\* stdout, it cannot be spawned, or the 30 minute timer fires first.
\* runClaudeCode resolves with stdout for every exit code (154-162);
\* spriteExec rejects a non-zero one (153-160).
RunSpawn ==
  /\ run.pc = "spawn"
  /\ \/ \E out \in ExecOutputs : \E code \in {0, 1} :
          IF code = 0 \/ run.provider = "local"
          THEN run' = [run EXCEPT !.steps = Append(@, Did("spawn", "ok")),
                                  !.output = out, !.exit = ExitOf(code),
                                  !.pc = "collect"]
          ELSE run' = [run EXCEPT !.steps = Append(@, Did("spawn", "failed")),
                                  !.output = out, !.exit = ExitOf(code),
                                  !.pc = AfterFailure(run.provider),
                                  !.result = FailureResult(SpriteCommandFailed)]
     \/ Settle("spawn", "spawnError", SpawnFailed)
     \/ Settle("spawn", "timeout",
               IF run.provider = "local" THEN LocalTimedOut ELSE SpriteTimedOut)
  /\ UNCHANGED Others

\* parseClaudeOutput(claudeOutput).
RunCollect ==
  /\ run.pc = "collect"
  /\ run' = [run EXCEPT
       !.steps = Append(@, Did("collect", "ok")),
       !.result = ParseClaudeOutput(run.output),
       !.pc = AfterCollect(run.provider, ParseClaudeOutput(run.output))]
  /\ UNCHANGED Others

\* fs.rm(workDir).catch(() => {}) / deleteSprite: a failure is ignored or
\* logged, and executeTask returns.
RunCleanup ==
  /\ run.pc = "cleanup"
  /\ \E how \in {"ok", "failed"} :
       run' = [run EXCEPT
         !.steps = Append(@, Did("cleanup", how)),
         !.workspace = IF how = "ok" /\ @ = "exists" THEN "deleted" ELSE @,
         !.pc = "returned"]
  /\ UNCHANGED Others

\* ------------------------------------------------------------ specifications

NoProbe ==
  [phase |-> "off", description |-> << >>, labels |-> << >>,
   defaultRepo |-> << >>, repository |-> NoRepository]

DescWithUrl ==
  <<"s", "e", "e", " ">> \o GitHubHttps \o <<"a", "/", "b">>

\* The issue the tracker holds: its description and labels, and the ids of
\* the comments issue.comments() returns.
TrackerIssues ==
  { [description |-> d, labels |-> << >>, commentIds |-> {"c1"}] :
      d \in {DescWithUrl, << >>} }

\* A validated configuration (src/src/config.ts) with the webhook secret set.
\* Revision "executor" never reads COMPUTE_PROVIDER, which stays at its default.
Configs ==
  { [secret |-> "k1", provider |-> p, defaultRepo |-> << >>, variant |-> "compute"] :
      p \in ConfigProviders }
  \cup
  { [secret |-> "k1", provider |-> "local", defaultRepo |-> << >>,
     variant |-> "executor"] }

Init ==
  /\ config \in Configs
  /\ tracker \in TrackerIssues
  /\ req = << >>
  /\ log = << >>
  /\ pc = << >>
  /\ task = << >>
  /\ nextUuid = 1
  /\ probe = NoProbe
  /\ run = NoRun

Next ==
  \/ PostWebhook
  \/ \E i \in DOMAIN pc : AckReturns(i)
  \/ \E i \in DOMAIN pc : ContextReturns(i)
  \/ \E i \in DOMAIN pc : ExecReturns(i)
  \/ \E i \in DOMAIN pc : ResultPostReturns(i)
  \/ \E i \in DOMAIN pc : NoRepositoryPostReturns(i)
  \/ \E i \in DOMAIN pc : ErrorPostReturns(i)

Spec == Init /\ [][Next]_vars

\* SpecHttp: one delivery drawn from every combination of wire fields, under
\* every setting of LINEAR_WEBHOOK_SECRET (absent, empty, set).
HttpConfigs ==
  { [secret |-> s, provider |-> "local", defaultRepo |-> << >>, variant |-> v] :
      s \in {NoVal, "", "k1"}, v \in Variants }

InitHttp ==
  /\ config \in HttpConfigs
  /\ tracker = [description |-> << >>, labels |-> << >>, commentIds |-> {"c1"}]
  /\ req = << >>
  /\ log = << >>
  /\ pc = << >>
  /\ task = << >>
  /\ nextUuid = 1
  /\ probe = NoProbe
  /\ run = NoRun

PostWebhookHttp ==
  /\ req = << >>
  /\ \E raw \in WireRaws : \E sig \in WireHeaders(raw) :
       Receive([sig |-> sig, raw |-> raw])

NextHttp ==
  \/ PostWebhookHttp
  \/ \E i \in DOMAIN pc : AckReturns(i)
  \/ \E i \in DOMAIN pc : ContextReturns(i)
  \/ \E i \in DOMAIN pc : ExecReturns(i)
  \/ \E i \in DOMAIN pc : ResultPostReturns(i)
  \/ \E i \in DOMAIN pc : NoRepositoryPostReturns(i)
  \/ \E i \in DOMAIN pc : ErrorPostReturns(i)

SpecHttp == InitHttp /\ [][NextHttp]_vars

\* SpecRepo: extractRepositoryInfo applied to descriptions, label lists and
\* default repositories.
DescOwnerOnly == GitHubHttps \o <<"a">>

DescDotGit == <<"(">> \o GitHubHttps \o <<"a", "/", "b">> \o DotGit \o <<")">>

DescPullUrl == GitHubHttp \o <<"c", "/", "d", "/", "p", "u", "l", "l", "/", "1">>

DescTwoUrls == GitHubHttps \o <<"a", " ">> \o GitHubHttps \o <<"c", "/", "d">>

DescNoScheme == <<"g", "i", "t", "h", "u", "b", ".", "c", "o", "m", "/", "a", "/", "b">>

Descriptions ==
  {<< >>, DescWithUrl, DescOwnerOnly, DescDotGit, DescPullUrl, DescTwoUrls, DescNoScheme}

LabelBug == <<"b", "u", "g">>

LabelRepoAB == RepoPrefix \o <<"a", "/", "b">>

LabelRepoCD == RepoPrefix \o <<"c", "/", "d">>

LabelRepoOwnerOnly == RepoPrefix \o <<"a">>

LabelRepoNoOwner == RepoPrefix \o <<"/", "b">>

LabelRepoDeep == RepoPrefix \o <<"a", "/", "b", "/", "c">>

LabelLists ==
  { << >>, <<LabelBug>>, <<LabelRepoAB>>, <<LabelBug, LabelRepoCD>>,
    <<LabelRepoOwnerOnly>>, <<LabelRepoNoOwner>>, <<LabelRepoDeep>>,
    <<LabelRepoAB, LabelRepoCD>>, <<LabelRepoOwnerOnly, LabelRepoAB>> }

DefaultRepos == {<< >>, SlugDE, <<"d">>, <<"d", "/">>}

InitRepo ==
  /\ config = [secret |-> "k1", provider |-> "local", defaultRepo |-> << >>,
               variant |-> "compute"]
  /\ tracker = [description |-> << >>, labels |-> << >>, commentIds |-> {"c1"}]
  /\ req = << >>
  /\ log = << >>
  /\ pc = << >>
  /\ task = << >>
  /\ nextUuid = 1
  /\ run = NoRun
  /\ probe \in { [phase |-> "input", description |-> d, labels |-> l,
                  defaultRepo |-> r, repository |-> NoRepository] :
                   d \in Descriptions, l \in LabelLists, r \in DefaultRepos }

\* getIssueContext's call of extractRepositoryInfo (webhook-handler.ts:257).
ResolveRepository ==
  /\ probe.phase = "input"
  /\ probe' = [probe EXCEPT
       !.phase = "resolved",
       !.repository = ExtractRepositoryInfo(probe.description, probe.labels,
                                            probe.defaultRepo)]
  /\ UNCHANGED <<config, tracker, req, log, pc, task, nextUuid, run>>

NextRepo == ResolveRepository

SpecRepo == InitRepo /\ [][NextRepo]_vars

\* ------------------------------------------------------- getIssueContext

\* The least index k at which body has @claude in any letter case, or 0.
FirstMention(body) ==
  IF \E k \in 1..Len(body) : MatchAtNoCase(body, MentionToken, k)
  THEN CHOOSE k \in 1..Len(body) :
         /\ MatchAtNoCase(body, MentionToken, k)
         /\ \A j \in 1..(k - 1) : ~MatchAtNoCase(body, MentionToken, j)
  ELSE 0

\* The mutant of ExtractInstruction: the text before the mention is kept.
ExtractInstructionKeepsPrefix(body) ==
  IF FirstMention(body) = 0 THEN body
  ELSE SubSeq(body, 1, FirstMention(body) - 1)
         \o TrimText(SubSeq(body, FirstMention(body) + Len(MentionToken), Len(body)))

\* extractInstruction: body.match(/@claude\s*([\s\S]*)/i), then match[1].trim(),
\* or the body when there is no match.
ExtractInstruction(body) ==
  IF FirstMention(body) = 0 THEN body
  ELSE TrimText(SubSeq(body, SkipWs(body, FirstMention(body) + Len(MentionToken)),
                       Len(body)))

\* A comment as issue.comments() returns it.
Comment(id, createdAt) == [id |-> id, createdAt |-> createdAt]

\* comments.map: each comment with isTrigger = (comment.id === triggerCommentId).
MarkTrigger(comments, triggerCommentId) ==
  [k \in 1..Len(comments) |->
     [id |-> comments[k].id, createdAt |-> comments[k].createdAt,
      isTrigger |-> comments[k].id = triggerCommentId]]

\* c put into the sorted list after every comment that is not later than it.
InsertByCreatedAt(sorted, c) ==
  SelectSeq(sorted, LAMBDA x : x.createdAt <= c.createdAt)
    \o <<c>>
    \o SelectSeq(sorted, LAMBDA x : x.createdAt > c.createdAt)

RECURSIVE SortByCreatedAt(_)
\* comments.sort((a, b) => time(a.createdAt) - time(b.createdAt)): a stable
\* sort, ascending.
SortByCreatedAt(comments) ==
  IF comments = << >> THEN << >>
  ELSE InsertByCreatedAt(SortByCreatedAt(SubSeq(comments, 1, Len(comments) - 1)),
                         comments[Len(comments)])

\* getIssueContext threw "Trigger comment ... not found".
NoContext == [ok |-> FALSE, comments |-> << >>, triggerCommentId |-> NoVal]

\* The mutant of GetIssueContext: the comments are left in the tracker's order.
GetIssueContextUnsorted(comments, triggerCommentId) ==
  LET marked == MarkTrigger(comments, triggerCommentId)
  IN  IF \A k \in 1..Len(marked) : ~marked[k].isTrigger THEN NoContext
      ELSE [ok |-> TRUE, comments |-> marked,
            triggerCommentId |->
              marked[CHOOSE k \in 1..Len(marked) :
                       /\ marked[k].isTrigger
                       /\ \A j \in 1..(k - 1) : ~marked[j].isTrigger].id]

\* getIssueContext, the part that builds the comment list and finds the
\* trigger comment: comments.find(c => c.isTrigger) on the sorted list.
GetIssueContext(comments, triggerCommentId) ==
  LET sorted == SortByCreatedAt(MarkTrigger(comments, triggerCommentId))
  IN  IF \A k \in 1..Len(sorted) : ~sorted[k].isTrigger THEN NoContext
      ELSE [ok |-> TRUE, comments |-> sorted,
            triggerCommentId |->
              sorted[CHOOSE k \in 1..Len(sorted) :
                       /\ sorted[k].isTrigger
                       /\ \A j \in 1..(k - 1) : ~sorted[j].isTrigger].id]

\* ------------------------------------------- specifications of the functions

\* The server with no delivery received.
IdleServer ==
  /\ config = [secret |-> "k1", provider |-> "local", defaultRepo |-> << >>,
               variant |-> "compute"]
  /\ tracker = [description |-> << >>, labels |-> << >>, commentIds |-> {"c1"}]
  /\ req = << >>
  /\ log = << >>
  /\ pc = << >>
  /\ task = << >>
  /\ nextUuid = 1

\* SpecExec: one call of executeTask of each provider class, with and without
\* a repository in the context.
InitExec ==
  /\ IdleServer
  /\ probe = NoProbe
  /\ run \in { NewRun(p, h) : p \in ProviderClasses, h \in BOOLEAN }

NextExec ==
  \/ RunStart
  \/ RunCreate
  \/ RunClone
  \/ RunIdentity
  \/ RunPrompt
  \/ RunSpawn
  \/ RunCollect
  \/ RunCleanup

SpecExec == InitExec /\ [][NextExec]_vars

\* SpecParse: parseClaudeOutput applied to console texts.
Pad(n) == [k \in 1..n |-> "x"]

BlockSuccess ==
  <<"BACKQUOTE", "BACKQUOTE", "BACKQUOTE", "j", "s", "o", "n", "\n", "{", "\"", "s", "u", "c", "c", "e", "s", "s", "\"", ":", " ", "t", "r", "u", "e", ",", " ", "\"", "s", "u", "m", "m", "a", "r", "y", "\"", ":", " ", "\"", "C", "r", "e", "a", "t", "e", "d", " ", "f", "i", "l", "e", "\"", "}", "\n", "BACKQUOTE", "BACKQUOTE", "BACKQUOTE">>

BlockFailure ==
  <<"BACKQUOTE", "BACKQUOTE", "BACKQUOTE", "j", "s", "o", "n", "\n", "{", "\"", "s", "u", "c", "c", "e", "s", "s", "\"", ":", " ", "f", "a", "l", "s", "e", ",", " ", "\"", "e", "r", "r", "o", "r", "\"", ":", " ", "\"", "C", "o", "u", "l", "d", " ", "n", "o", "t", " ", "f", "i", "n", "d", " ", "f", "i", "l", "e", "\"", "}", "\n", "BACKQUOTE", "BACKQUOTE", "BACKQUOTE">>

BlockNoSuccess == <<"BACKQUOTE", "BACKQUOTE", "BACKQUOTE", "j", "s", "o", "n", "\n", "{", "\"", "p", "r", "U", "r", "l", "\"", ":", " ", "\"", "h", "t", "t", "p", "s", ":", "/", "/", "g", "i", "t", "h", "u", "b", ".", "c", "o", "m", "/", "a", "/", "b", "/", "p", "u", "l", "l", "/", "7", "\"", "}", "\n", "BACKQUOTE", "BACKQUOTE", "BACKQUOTE">>

BlockEmptyObject == <<"BACKQUOTE", "BACKQUOTE", "BACKQUOTE", "j", "s", "o", "n", " ", "{", "}", " ", "BACKQUOTE", "BACKQUOTE", "BACKQUOTE">>

BlockSuccessWithError ==
  <<"BACKQUOTE", "BACKQUOTE", "BACKQUOTE", "j", "s", "o", "n", "\n", "{", "\"", "s", "u", "c", "c", "e", "s", "s", "\"", ":", " ", "t", "r", "u", "e", ",", " ", "\"", "e", "r", "r", "o", "r", "\"", ":", " ", "\"", "l", "i", "n", "t", " ", "f", "a", "i", "l", "e", "d", "\"", ",", " ", "\"", "p", "r", "U", "r", "l", "\"", ":", " ", "\"", "u", "\"", "}", "\n", "BACKQUOTE", "BACKQUOTE", "BACKQUOTE">>

BlockBareValue == <<"BACKQUOTE", "BACKQUOTE", "BACKQUOTE", "j", "s", "o", "n", "\n", "t", "r", "u", "e", "\n", "BACKQUOTE", "BACKQUOTE", "BACKQUOTE">>

BlockInvalid == <<"BACKQUOTE", "BACKQUOTE", "BACKQUOTE", "j", "s", "o", "n", "\n", "{", "o", "o", "p", "s", "}", "\n", "BACKQUOTE", "BACKQUOTE", "BACKQUOTE", "\n">>

BlockUnclosed == <<"BACKQUOTE", "BACKQUOTE", "BACKQUOTE", "j", "s", "o", "n", "\n", "{", "\"", "s", "u", "c", "c", "e", "s", "s", "\"", ":", " ", "t", "r", "u", "e", "}">>

PullUrl42 == <<"h", "t", "t", "p", "s", ":", "/", "/", "g", "i", "t", "h", "u", "b", ".", "c", "o", "m", "/", "a", "c", "m", "e", "/", "w", "i", "d", "g", "e", "t", "s", "/", "p", "u", "l", "l", "/", "4", "2">>

PullUrl3 == <<"h", "t", "t", "p", "s", ":", "/", "/", "g", "i", "t", "h", "u", "b", ".", "c", "o", "m", "/", "o", "/", "r", "/", "p", "u", "l", "l", "/", "3">>

PullUrl9 == <<"h", "t", "t", "p", "s", ":", "/", "/", "g", "i", "t", "h", "u", "b", ".", "c", "o", "m", "/", "z", "/", "y", "/", "p", "u", "l", "l", "/", "9">>

OutputPrefixes ==
  { << >>, <<"D", "i", "d", " ", "s", "o", "m", "e", " ", "w", "o", "r", "k", ".", "\n">>, <<"e", "r", "r", "o", "r", ":", " ">>, <<"B", "u", "i", "l", "d", " ", "f", "a", "i", "l", "e", "d", ".", "\n">>, <<"E", "r", "r", "o", "r", "\n">>,
    <<"s", "e", "e", " ">> \o PullUrl3 \o <<" ">>, BlockInvalid,
    Pad(UnparsedSummaryTail + 20), <<"e", "r", "r", "o", "r", " ">> \o Pad(ErrorSummaryTail + 10) }

OutputMiddles ==
  { << >>, BlockSuccess, BlockFailure, BlockNoSuccess, BlockEmptyObject,
    BlockSuccessWithError, BlockBareValue, BlockUnclosed, PullUrl42,
    <<"h", "t", "t", "p", "s", ":", "/", "/", "g", "i", "t", "h", "u", "b", ".", "c", "o", "m", "/", "a", "c", "m", "e", "/", "w", "i", "d", "g", "e", "t", "s", "/", "p", "u", "l", "l", "/">>,
    <<"I", " ", "d", "i", "d", " ", "s", "o", "m", "e", " ", "s", "t", "u", "f", "f", " ", "b", "u", "t", " ", "f", "o", "r", "g", "o", "t", " ", "t", "h", "e", " ", "J", "S", "O", "N">> }

OutputSuffixes ==
  { << >>, <<"\n", "D", "o", "n", "e", ".">>, <<" ", "e", "r", "r", "o", "r">>, <<" ">> \o PullUrl9, <<"\n">> \o BlockSuccess }

Outputs ==
  { a \o b \o c : a \in OutputPrefixes, b \in OutputMiddles, c \in OutputSuffixes }

InitParse ==
  /\ IdleServer
  /\ run = NoRun
  /\ probe \in { [phase |-> "output", output |-> o,
                  result |-> TaskResult(Undefined, Undefined, Undefined, Undefined)] :
                   o \in Outputs }

\* The provider's call parseClaudeOutput(claudeOutput).
ParseOutput ==
  /\ probe.phase = "output"
  /\ probe' = [probe EXCEPT !.phase = "parsed",
                            !.result = ParseClaudeOutput(probe.output)]
  /\ UNCHANGED <<config, tracker, req, log, pc, task, nextUuid, run>>

NextParse == ParseOutput

SpecParse == InitParse /\ [][NextParse]_vars

\* SpecInstr: extractInstruction applied to comment bodies.
InstructionPrefixes == { << >>, <<"h", "i", " ">>, <<"H", "e", "y", " ", "t", "e", "a", "m", ",", "\n">>, <<"c", "l", "a", "u", "d", "e", " ">> }

InstructionMentions ==
  { << >>, <<"@", "c", "l", "a", "u", "d", "e">>, <<"@", "C", "L", "A", "U", "D", "E">>, <<"@", "C", "l", "a", "u", "d", "e">>, <<"@", "c", "l", "a", "u", "d">> }

InstructionGaps == { << >>, <<" ">>, <<"\n", "\n">>, <<",", " ">> }

InstructionRests ==
  { << >>, <<"f", "i", "x", " ", "t", "h", "e", " ", "b", "u", "g">>, <<"f", "i", "x", " ", "i", "t", " ", " ">>, <<"a", "s", "k", " ", "@", "c", "l", "a", "u", "d", "e", " ", "a", "g", "a", "i", "n">>, <<"a", "\n", "b", "\n">> }

InstructionBodies ==
  { a \o m \o g \o r : a \in InstructionPrefixes, m \in InstructionMentions,
                       g \in InstructionGaps, r \in InstructionRests }

InitInstr ==
  /\ IdleServer
  /\ run = NoRun
  /\ probe \in { [phase |-> "body", body |-> b, instruction |-> << >>] :
                   b \in InstructionBodies }

\* getIssueContext's call this.extractInstruction(triggerComment.body).
ExtractTriggerInstruction ==
  /\ probe.phase = "body"
  /\ probe' = [probe EXCEPT !.phase = "extracted",
                            !.instruction = ExtractInstruction(probe.body)]
  /\ UNCHANGED <<config, tracker, req, log, pc, task, nextUuid, run>>

NextInstr == ExtractTriggerInstruction

SpecInstr == InitInstr /\ [][NextInstr]_vars

\* SpecContext: getIssueContext applied to the comment lists a tracker can
\* return: comments with distinct ids, in any order, with any timestamps.
MaxComments == 3

CommentIds == {"c1", "c2", "c3"}

CommentTimes == 1..MaxComments

CommentLists ==
  UNION { { s \in [1..n -> { Comment(i, t) : i \in CommentIds, t \in CommentTimes }] :
              \A a, b \in 1..n : a # b => s[a].id # s[b].id } :
          n \in 0..MaxComments }

TriggerIds == {"c1", "c4"}

InitContext ==
  /\ IdleServer
  /\ run = NoRun
  /\ probe \in { [phase |-> "comments", comments |-> cs, triggerCommentId |-> t,
                  context |-> NoContext] :
                   cs \in CommentLists, t \in TriggerIds }

\* linearClient.getIssueContext(issueId, commentId).
FetchContext ==
  /\ probe.phase = "comments"
  /\ probe' = [probe EXCEPT
       !.phase = "fetched",
       !.context = GetIssueContext(probe.comments, probe.triggerCommentId)]
  /\ UNCHANGED <<config, tracker, req, log, pc, task, nextUuid, run>>

NextContext == FetchContext

SpecContext == InitContext /\ [][NextContext]_vars

\* ------------------------------------------------- the comments the task posts

\* The emoji of the comment texts, each taken as one character.
Robot == <<"ROBOT">>

CheckMark == <<"CHECKMARK">>

CrossMark == <<"CROSSMARK">>

\* The request id of part_002 (webhook-<Date.now()>-<random>).
RequestId == <<"w", "e", "b", "h", "o", "o", "k", "-", "1", "7", "-", "k", "3", "x", "9">>

\* "\n\n_Request ID: ${requestId}_", which part_002 appends to every comment.
RequestIdFooter(requestId) == <<"\n", "\n", "_", "R", "e", "q", "u", "e", "s", "t", " ", "I", "D", ":", " ">> \o requestId \o <<"_">>

\* The result an execution hands to the reporter: the fields of the two
\* revisions of ClaudeTaskResult.  assumptions and questions are lists of
\* texts.
ReportResult(success, prUrl, summary, error, output, assumptions, questions) ==
  [success |-> success, prUrl |-> prUrl, summary |-> summary, error |-> error,
   output |-> output, assumptions |-> assumptions, questions |-> questions]

\* A result of parseClaudeOutput (part_004:273-319) or of a provider's catch
\* block as the reporter sees it: it has no output field.
ReportOf(result) ==
  ReportResult(result.success, result.prUrl, result.summary, result.error,
               Undefined, << >>, << >>)

\* The acknowledgment comment.
AckComment(variant, requestId) ==
  Robot \o <<" ", "*", "*", "C", "l", "a", "u", "d", "e", " ", "i", "s", " ", "o", "n", " ", "i", "t", "!", "*", "*", "\n", "\n", "I", "'", "m", " ", "a", "n", "a", "l", "y", "z", "i", "n", "g", " ", "t", "h", "i", "s", " ", "i", "s", "s", "u", "e", " ", "a", "n", "d", " ", "w", "i", "l", "l", " ", "i", "m", "p", "l", "e", "m", "e", "n", "t", " ", "t", "h", "e", " ", "r", "e", "q", "u", "e", "s", "t", "e", "d", " ", "c", "h", "a", "n", "g", "e", "s", ".", " ", "I", "'", "l", "l", " ", "u", "p", "d", "a", "t", "e", " ", "t", "h", "i", "s", " ", "t", "h", "r", "e", "a", "d", " ", "w", "i", "t", "h", " ", "a", " ", "P", "R", " ", "l", "i", "n", "k", " ", "o", "n", "c", "e", " ", "c", "o", "m", "p", "l", "e", "t", "e", ".">>
    \o (IF variant = "compute" THEN RequestIdFooter(requestId) ELSE << >>)

\* webhook-handler.ts 134-137: the comment posted when the context has no
\* repository.
NoRepositoryComment ==
  CrossMark \o <<" ", "*", "*", "C", "o", "u", "l", "d", " ", "n", "o", "t", " ", "d", "e", "t", "e", "r", "m", "i", "n", "e", " ", "r", "e", "p", "o", "s", "i", "t", "o", "r", "y", "*", "*", "\n", "\n", "P", "l", "e", "a", "s", "e", " ", "a", "d", "d", " ", "a", " ", "G", "i", "t", "H", "u", "b", " ", "r", "e", "p", "o", "s", "i", "t", "o", "r", "y", " ", "U", "R", "L", " ", "t", "o", " ", "t", "h", "e", " ", "i", "s", "s", "u", "e", " ", "d", "e", "s", "c", "r", "i", "p", "t", "i", "o", "n", ",", " ", "o", "r", " ", "a", "d", "d", " ", "a", " ", "l", "a", "b", "e", "l", " ", "i", "n", " ", "t", "h", "e", " ", "f", "o", "r", "m", "a", "t", " ", "BACKQUOTE", "r", "e", "p", "o", ":", "o", "w", "n", "e", "r", "/", "n", "a", "m", "e", "BACKQUOTE", ",", " ", "o", "r", " ", "c", "o", "n", "f", "i", "g", "u", "r", "e", " ", "a", " ", "d", "e", "f", "a", "u", "l", "t", " ", "r", "e", "p", "o", "s", "i", "t", "o", "r", "y", ".">>

\* The comment of the outer catch block, with the message of the error caught.
ErrorComment(variant, message, requestId) ==
  CrossMark \o <<" ", "*", "*", "U", "n", "e", "x", "p", "e", "c", "t", "e", "d", " ", "E", "r", "r", "o", "r", "*", "*", "\n", "\n", "A", "n", " ", "e", "r", "r", "o", "r", " ", "o", "c", "c", "u", "r", "r", "e", "d", " ", "w", "h", "i", "l", "e", " ", "p", "r", "o", "c", "e", "s", "s", "i", "n", "g", " ", "t", "h", "i", "s", " ", "r", "e", "q", "u", "e", "s", "t", ":", "\n", "BACKQUOTE", "BACKQUOTE", "BACKQUOTE", "\n">>
    \o message \o <<"\n", "BACKQUOTE", "BACKQUOTE", "BACKQUOTE", "\n", "\n", "P", "l", "e", "a", "s", "e", " ", "c", "h", "e", "c", "k", " ", "t", "h", "e", " ", "s", "e", "r", "v", "e", "r", " ", "l", "o", "g", "s", " ", "f", "o", "r", " ", "m", "o", "r", "e", " ", "d", "e", "t", "a", "i", "l", "s", ".">>
    \o (IF variant = "compute" THEN RequestIdFooter(requestId) ELSE << >>)

CommentBudget == 10000

TruncatedLength == 9900

TruncatedMarker == <<"\n", "\n", ".", ".", ".", "(", "t", "r", "u", "n", "c", "a", "t", "e", "d", ")">>

\* part_002 223-233: the pull request line and the output, or the error when
\* there is no output.
ComposedResultComment(result) ==
  (IF TruthyValue(result.prUrl)
   THEN <<"*", "*", "P", "u", "l", "l", " ", "R", "e", "q", "u", "e", "s", "t", ":", "*", "*", " ">> \o result.prUrl.text \o <<"\n", "\n">>
   ELSE << >>)
  \o (IF TruthyValue(result.output) THEN result.output.text
      ELSE IF TruthyValue(result.error)
      THEN CrossMark \o <<" ", "*", "*", "E", "r", "r", "o", "r", ":", "*", "*", " ">> \o result.error.text
      ELSE << >>)

\* The mutant of TruncateComment: the text is cut at the budget.
TruncateAtBudget(comment) ==
  IF Len(comment) > CommentBudget
  THEN SubSeq(comment, 1, CommentBudget) \o TruncatedMarker
  ELSE comment

\* part_002 236-238: if (comment.length > 10000) comment =
\* comment.substring(0, 9900) + '\n\n...(truncated)'.
TruncateComment(comment) ==
  IF Len(comment) > CommentBudget
  THEN SubSeq(comment, 1, TruncatedLength) \o TruncatedMarker
  ELSE comment

RECURSIVE BulletList(_)
\* items.forEach(a => { comment += "- " + a + "\n" }).
BulletList(items) ==
  IF items = << >> THEN << >>
  ELSE <<"-", " ">> \o items[1] \o <<"\n">> \o BulletList(Tail(items))

\* webhook-handler.ts 149-169: the comment of a result with success and a
\* pull request URL.
CompleteComment(result) ==
  CheckMark \o <<" ", "*", "*", "I", "m", "p", "l", "e", "m", "e", "n", "t", "a", "t", "i", "o", "n", " ", "C", "o", "m", "p", "l", "e", "t", "e", "!", "*", "*", "\n", "\n">>
    \o <<"*", "*", "P", "u", "l", "l", " ", "R", "e", "q", "u", "e", "s", "t", ":", "*", "*", " ">> \o result.prUrl.text \o <<"\n", "\n">>
    \o (IF TruthyValue(result.summary)
        THEN <<"*", "*", "S", "u", "m", "m", "a", "r", "y", ":", "*", "*", "\n">> \o result.summary.text \o <<"\n", "\n">> ELSE << >>)
    \o (IF result.assumptions # << >>
        THEN <<"*", "*", "A", "s", "s", "u", "m", "p", "t", "i", "o", "n", "s", " ", "m", "a", "d", "e", ":", "*", "*", "\n">> \o BulletList(result.assumptions) \o <<"\n">>
        ELSE << >>)
    \o (IF result.questions # << >>
        THEN <<"*", "*", "Q", "u", "e", "s", "t", "i", "o", "n", "s", "/", "C", "l", "a", "r", "i", "f", "i", "c", "a", "t", "i", "o", "n", "s", " ", "n", "e", "e", "d", "e", "d", ":", "*", "*", "\n">> \o BulletList(result.questions)
        ELSE << >>)

\* webhook-handler.ts 173-183: the comment of every other result.
FailedComment(result) ==
  CrossMark \o <<" ", "*", "*", "I", "m", "p", "l", "e", "m", "e", "n", "t", "a", "t", "i", "o", "n", " ", "F", "a", "i", "l", "e", "d", "*", "*", "\n", "\n">>
    \o (IF TruthyValue(result.error)
        THEN <<"*", "*", "E", "r", "r", "o", "r", ":", "*", "*", " ">> \o result.error.text \o <<"\n", "\n">> ELSE << >>)
    \o (IF TruthyValue(result.summary)
        THEN <<"*", "*", "W", "h", "a", "t", " ", "w", "a", "s", " ", "a", "t", "t", "e", "m", "p", "t", "e", "d", ":", "*", "*", "\n">> \o result.summary.text \o <<"\n", "\n">>
        ELSE << >>)
    \o <<"P", "l", "e", "a", "s", "e", " ", "r", "e", "v", "i", "e", "w", " ", "t", "h", "e", " ", "i", "s", "s", "u", "e", " ", "d", "e", "s", "c", "r", "i", "p", "t", "i", "o", "n", " ", "a", "n", "d", " ", "t", "r", "y", " ", "a", "g", "a", "i", "n", ",", " ", "o", "r", " ", "i", "m", "p", "l", "e", "m", "e", "n", "t", " ", "m", "a", "n", "u", "a", "l", "l", "y", ".">>

\* The mutant of ResultComment: the form follows result.success alone.
ResultCommentBySuccess(variant, result, requestId) ==
  IF variant = "compute"
  THEN TruncateComment(ComposedResultComment(result)) \o RequestIdFooter(requestId)
  ELSE IF TruthyValue(result.success) THEN CompleteComment(result)
  ELSE FailedComment(result)

\* The body of the result comment: part_002 223-240, webhook-handler.ts
\* 148-186.
ResultComment(variant, result, requestId) ==
  IF variant = "compute"
  THEN TruncateComment(ComposedResultComment(result)) \o RequestIdFooter(requestId)
  ELSE IF TruthyValue(result.success) /\ TruthyValue(result.prUrl)
  THEN CompleteComment(result)
  ELSE FailedComment(result)

\* ----------------------------------------------------- SpecReport: the reporter

\* A text of n characters whose k-th character is the last digit of k.
LongText(n) ==
  [k \in 1..n |-> <<"0", "1", "2", "3", "4", "5", "6", "7", "8", "9">>[(k % 10) + 1]]

\* The lengths of the tool outputs of SpecReport: around the cut and around
\* the budget, without and with the 59 characters of the pull request line.
OutputLengths ==
  {0, 12, 9840, 9841, 9842, 9899, 9900, 9901, 9940, 9941, 9942, 9999, 10000,
   10001, 10500}

\* A tool output that repeats the mention it was given.
OutputWithMention == <<"D", "o", "n", "e", ".", " ", "I", " ", "f", "i", "x", "e", "d", " ", "w", "h", "a", "t", " ", "@", "c", "l", "a", "u", "d", "e", " ", "w", "a", "s", " ", "a", "s", "k", "e", "d", " ", "t", "o", " ", "f", "i", "x", ".">>

\* A self-report whose summary repeats the mention.
BlockWithMention ==
  <<"BACKQUOTE", "BACKQUOTE", "BACKQUOTE", "j", "s", "o", "n", "\n", "{", "\"", "s", "u", "c", "c", "e", "s", "s", "\"", ":", " ", "t", "r", "u", "e", ",", " ", "\"", "s", "u", "m", "m", "a", "r", "y", "\"", ":", " ", "\"", "D", "i", "d", " ", "w", "h", "a", "t", " ", "@", "C", "l", "a", "u", "d", "e", " ", "a", "s", "k", "e", "d", "\"", ",", " ", "\"", "p", "r", "U", "r", "l", "\"", ":", " ", "\"", "h", "t", "t", "p", "s", ":", "/", "/", "g", "i", "t", "h", "u", "b", ".", "c", "o", "m", "/", "a", "/", "b", "/", "p", "u", "l", "l", "/", "8", "\"", "}", "\n", "BACKQUOTE", "BACKQUOTE", "BACKQUOTE">>

\* Results of the executor revision that has an output field (part_004
\* 390-399 and the catch blocks): the output with the URL found in it, or a
\* failure with the error message.
OutputResults ==
  { ReportResult(JsonBool(TRUE), pr, Undefined, Undefined,
                 JsonString(LongText(n)), << >>, << >>) :
      pr \in {Undefined, JsonString(PullUrl42)}, n \in OutputLengths }
  \cup
  { ReportResult(JsonBool(TRUE), Undefined, Undefined, Undefined,
                 JsonString(OutputWithMention), << >>, << >>) }
  \cup
  { ReportResult(JsonBool(FALSE), Undefined, Undefined, JsonString(e),
                 Undefined, << >>, << >>) :
      e \in {CommandFailed, CommandFailed \o LongText(CommentBudget)} }

\* Results of parseClaudeOutput (part_004 273-319) and of the catch blocks,
\* some with the assumptions and questions of the self-report.
ParsedResults ==
  { ReportOf(ParseClaudeOutput(o)) :
      o \in ExecOutputs \cup {BlockWithMention, BlockSuccess} }
  \cup { ReportOf(FailureResult(m)) : m \in {CommandFailed, LocalTimedOut} }
  \cup
  { [ReportOf(ParseClaudeOutput(o)) EXCEPT !.assumptions = a, !.questions = q] :
      o \in ExecOutputs,
      a \in {<<<<"m", "a", "i", "n", " ", "i", "s", " ", "t", "h", "e", " ", "b", "a", "s", "e", " ", "b", "r", "a", "n", "c", "h">>>>},
      q \in {<< >>, <<<<"W", "h", "i", "c", "h", " ", "p", "o", "r", "t", "?">>, <<"K", "e", "e", "p", " ", "t", "h", "e", " ", "f", "l", "a", "g", "?">>>>} }

\* The messages of the errors that reach the outer catch block: a trigger
\* comment that was not found (its id comes from the delivery), a tracker API
\* failure, an unknown provider.
ThrownMessages ==
  { <<"T", "r", "i", "g", "g", "e", "r", " ", "c", "o", "m", "m", "e", "n", "t", " ", "c", "9", " ", "n", "o", "t", " ", "f", "o", "u", "n", "d">>, <<"f", "e", "t", "c", "h", " ", "f", "a", "i", "l", "e", "d">>,
    <<"U", "n", "k", "n", "o", "w", "n", " ", "c", "o", "m", "p", "u", "t", "e", " ", "p", "r", "o", "v", "i", "d", "e", "r", ":", " ", "m", "o", "d", "a", "l">>,
    <<"T", "r", "i", "g", "g", "e", "r", " ", "c", "o", "m", "m", "e", "n", "t", " ">> \o LongText(CommentBudget) \o <<" ", "n", "o", "t", " ", "f", "o", "u", "n", "d">> }

NoReport == ReportOf(TaskResult(Undefined, Undefined, Undefined, Undefined))

\* A comment the task is about to post: the acknowledgment, the missing
\* repository notice, the result of an execution or the error caught.
PendingComment(variant, kind, result, message) ==
  [phase |-> "pending", variant |-> variant, kind |-> kind, result |-> result,
   message |-> message, body |-> << >>, status |-> 0, started |-> FALSE]

PendingComments ==
  { PendingComment(v, "ack", NoReport, << >>) : v \in Variants }
  \cup { PendingComment("executor", "norepo", NoReport, << >>) }
  \cup { PendingComment("compute", "result", r, << >>) :
           r \in OutputResults \cup ParsedResults }
  \cup { PendingComment("executor", "result", r, << >>) : r \in ParsedResults }
  \cup { PendingComment(v, "error", NoReport, m) :
           v \in Variants, m \in ThrownMessages }

InitReport ==
  /\ IdleServer
  /\ run = NoRun
  /\ probe \in PendingComments

\* The body of the comment to post.
CommentBody(p) ==
  CASE p.kind = "ack" -> AckComment(p.variant, RequestId)
    [] p.kind = "norepo" -> NoRepositoryComment
    [] p.kind = "result" -> ResultComment(p.variant, p.result, RequestId)
    [] OTHER -> ErrorComment(p.variant, p.message, RequestId)

\* linearClient.addComment(issueId, comment).
PostComment ==
  /\ probe.phase = "pending"
  /\ probe' = [probe EXCEPT !.phase = "posted", !.body = CommentBody(probe)]
  /\ UNCHANGED <<config, tracker, req, log, pc, task, nextUuid, run>>

\* The tracker delivers the comment just created as a comment-creation
\* webhook, signed, and handleLinearWebhook answers it; with 202 it starts
\* processClaudeRequest for it.
DeliverOwnComment ==
  /\ probe.phase = "posted"
  /\ LET doc == Doc("Comment", "create",
                    CommentData("s1", probe.body, "I1", NoIssue))
         status == Classify(doc, probe.variant).status
     IN  probe' = [probe EXCEPT !.phase = "delivered", !.status = status,
                                !.started = (status = 202)]
  /\ UNCHANGED <<config, tracker, req, log, pc, task, nextUuid, run>>

NextReport ==
  \/ PostComment
  \/ DeliverOwnComment

SpecReport == InitReport /\ [][NextReport]_vars

\* ------------------------------------------ buildPrompt: the comments section

\* The two revisions of buildPrompt that have a comments section: "recent" is
\* part_004 22-77, "filtered" is part_004 339-385.
PromptRevisions == {"recent", "filtered"}

\* The substrings by which buildPrompt recognises auto-generated comments.
AutoGeneratedMarks(revision) ==
  IF revision = "recent" THEN { <<"C", "l", "a", "u", "d", "e", " ", "i", "s", " ", "o", "n", " ", "i", "t">> }
  ELSE { <<"C", "l", "a", "u", "d", "e", " ", "i", "s", " ", "o", "n", " ", "i", "t">>, <<"T", "a", "s", "k", " ", "C", "o", "m", "p", "l", "e", "t", "e">>, <<"T", "a", "s", "k", " ", "F", "a", "i", "l", "e", "d">> }

\* comments.filter(c => !c.body.includes(...)).
RelevantComments(revision, comments) ==
  SelectSeq(comments,
            LAMBDA c : \A m \in AutoGeneratedMarks(revision) : ~Includes(c.body, m))

\* relevantComments.slice(-3).
LastThree(s) == IF Len(s) <= 3 THEN s ELSE SubSeq(s, Len(s) - 2, Len(s))

\* The comments the section lists.
PromptComments(revision, comments) ==
  LastThree(RelevantComments(revision, comments))

\* One line of the section: the author and the first 200 (300) characters
\* of the body, with "..." when the body is longer.
CommentLine(revision, c) ==
  LET limit == IF revision = "recent" THEN 200 ELSE 300
  IN  <<"-", " ">> \o c.author \o <<":", " ">>
        \o (IF Len(c.body) > limit THEN SubSeq(c.body, 1, limit) \o <<".", ".", ".">>
            ELSE c.body)
        \o <<"\n">>

RECURSIVE CommentLines(_, _)
CommentLines(revision, comments) ==
  IF comments = << >> THEN << >>
  ELSE CommentLine(revision, comments[1]) \o CommentLines(revision, Tail(comments))

\* The comments section of the prompt; there is none without relevant
\* comments.
CommentsSection(revision, comments) ==
  IF RelevantComments(revision, comments) = << >> THEN << >>
  ELSE <<"#", "#", " ", "C", "o", "m", "m", "e", "n", "t", "s", "\n">>
         \o CommentLines(revision, PromptComments(revision, comments))
         \o <<"\n">>

\* A comment of the issue context: its author and body.
IssueComment(author, body) == [author |-> author, body |-> body]

\* The name of the account whose API key posts the system's comments.
BotName == <<"C", "l", "a", "u", "d", "e", " ", "B", "o", "t">>

\* Comments the system posted on the issue in earlier requests.
OwnComments ==
  { IssueComment(BotName, AckComment("compute", RequestId)),
    IssueComment(BotName,
      ResultComment("executor", ReportOf(ParseClaudeOutput(BlockWithMention)), RequestId)),
    IssueComment(BotName,
      ResultComment("executor", ReportOf(FailureResult(CommandFailed)), RequestId)),
    IssueComment(BotName,
      ResultComment("compute",
        ReportResult(JsonBool(TRUE), Undefined, Undefined, Undefined,
                     JsonString(<<"A", "l", "l", " ", "d", "o", "n", "e", ".">>), << >>, << >>), RequestId)),
    IssueComment(BotName, ErrorComment("compute", <<"f", "e", "t", "c", "h", " ", "f", "a", "i", "l", "e", "d">>, RequestId)) }

\* Comments of the users, one of them longer than a line of the section holds.
UserComments ==
  { IssueComment(<<"A", "n", "n">>, <<"@", "c", "l", "a", "u", "d", "e", " ", "f", "i", "x", " ", "t", "h", "e", " ", "b", "u", "g">>),
    IssueComment(<<"B", "o", "b">>, <<"I", "t", " ", "s", "a", "i", "d", " ", "C", "l", "a", "u", "d", "e", " ", "i", "s", " ", "o", "n", " ", "i", "t", ",", " ", "t", "h", "e", "n", " ", "n", "o", "t", "h", "i", "n", "g", ".">>),
    IssueComment(<<"A", "n", "n">>, LongText(310)) }

MaxPromptComments == 4

\* The comment lists of the issue contexts, oldest first.
PromptCommentLists ==
  UNION { [1..n -> OwnComments \cup UserComments] : n \in 0..MaxPromptComments }

InitPrompt ==
  /\ IdleServer
  /\ run = NoRun
  /\ probe \in { [phase |-> "context", revision |-> r, comments |-> cs,
                  listed |-> << >>, section |-> << >>] :
                   r \in PromptRevisions, cs \in PromptCommentLists }

\* buildPrompt(context), the part that adds the comments.
BuildPrompt ==
  /\ probe.phase = "context"
  /\ probe' = [probe EXCEPT
       !.phase = "built",
       !.listed = PromptComments(probe.revision, probe.comments),
       !.section = CommentsSection(probe.revision, probe.comments)]
  /\ UNCHANGED <<config, tracker, req, log, pc, task, nextUuid, run>>

NextPrompt == BuildPrompt

SpecPrompt == InitPrompt /\ [][NextPrompt]_vars

\* --------------------------------------------- the workspaces of two tasks

\* issue.identifier.toLowerCase().
LowerCase(text) == [k \in 1..Len(text) |-> ToLower(text[k])]

\* A name made of a text and the decimal reading of a clock or uuid value.
Stamped(text, stamp) == [text |-> text, stamp |-> stamp]

NoName == Stamped(<< >>, 0)

\* local.ts: the working directory of a task, WORK_DIR joined with a uuid.
LocalWorkDir(uuid) == Stamped(<<"/", "t", "m", "p", "/", "c", "l", "a", "u", "d", "e", "-", "w", "o", "r", "k", "/">>, uuid)

\* sprites.ts: the sandbox name of a task started at clock value now.
SpriteName(identifier, now) ==
  Stamped(<<"l", "i", "n", "e", "a", "r", "-">> \o LowerCase(identifier) \o <<"-">>, now)

\* sprites.ts: the temporary prompt file written at clock value now.
SpritePromptFile(now) == Stamped(<<"/", "t", "m", "p", "/", "s", "p", "r", "i", "t", "e", "-", "p", "r", "o", "m", "p", "t", "-">>, now)

\* The first clock value; Date.now() counts milliseconds.
FirstInstant == 1

\* The clock values two tasks can read.
MaxInstant == 3

TaskIssues == { <<"E", "N", "G", "-", "1">>, <<"E", "N", "G", "-", "2">> }

\* A task of processClaudeRequest that has not named its workspace yet.
NewTask(identifier) ==
  [identifier |-> identifier, at |-> "start", workspace |-> NoName,
   promptFile |-> NoName]

InitNames ==
  /\ IdleServer
  /\ run = NoRun
  /\ probe \in { [provider |-> p, now |-> FirstInstant,
                  tasks |-> <<NewTask(i), NewTask(j)>>] :
                   p \in ProviderClasses, i \in TaskIssues, j \in TaskIssues }

\* A millisecond passes.
Tick ==
  /\ probe.now < MaxInstant
  /\ probe' = [probe EXCEPT !.now = @ + 1]
  /\ UNCHANGED <<config, tracker, req, log, pc, task, nextUuid, run>>

\* executeTask names the working directory (local) or the sandbox (sprites)
\* of task t.
NameWorkspace(t) ==
  /\ probe.tasks[t].at = "start"
  /\ IF probe.provider = "local"
     THEN /\ probe' = [probe EXCEPT !.tasks[t].at = "named",
                         !.tasks[t].workspace = LocalWorkDir(nextUuid)]
          /\ nextUuid' = nextUuid + 1
     ELSE /\ probe' = [probe EXCEPT !.tasks[t].at = "named",
                         !.tasks[t].workspace =
                            SpriteName(probe.tasks[t].identifier, probe.now)]
          /\ UNCHANGED nextUuid
  /\ UNCHANGED <<config, tracker, req, log, pc, task, run>>

\* executeTask writes the prompt of task t: prompt.txt inside the working
\* directory (local) or a temporary file named by the clock (sprites).
WritePrompt(t) ==
  /\ probe.tasks[t].at = "named"
  /\ probe' = [probe EXCEPT !.tasks[t].at = "prompted",
       !.tasks[t].promptFile =
          IF probe.provider = "local"
          THEN [probe.tasks[t].workspace EXCEPT !.text = @ \o <<"/", "p", "r", "o", "m", "p", "t", ".", "t", "x", "t">>]
          ELSE SpritePromptFile(probe.now)]
  /\ UNCHANGED <<config, tracker, req, log, pc, task, nextUuid, run>>

\* executeTask of task t returns; its workspace is given up.
TaskReturns(t) ==
  /\ probe.tasks[t].at = "prompted"
  /\ probe' = [probe EXCEPT !.tasks[t].at = "returned"]
  /\ UNCHANGED <<config, tracker, req, log, pc, task, nextUuid, run>>

NextNames ==
  \/ Tick
  \/ \E t \in 1..2 : NameWorkspace(t)
  \/ \E t \in 1..2 : WritePrompt(t)
  \/ \E t \in 1..2 : TaskReturns(t)

SpecNames == InitNames /\ [][NextNames]_vars

\* ------------------------------- the promise of a spawned process: the race

\* The promise of runClaudeCode (local.ts) and spriteExec (sprites.ts).
Pending == [state |-> "pending", value |-> << >>]

\* resolve(value) and reject(error) of a promise: the first call settles it,
\* later calls change nothing.
SettlePromise(promise, state, value) ==
  IF promise.state = "pending" THEN [state |-> state, value |-> value]
  ELSE promise

\* The mutant of ClearTimeout: the timer stays armed.
ClearTimeoutForgotten(timer) == timer

\* clearTimeout(timer): an armed timer is cancelled, a timer that fired
\* stays fired.
ClearTimeout(timer) == IF timer = "armed" THEN "cancelled" ELSE timer

\* The message of the timeout rejection.
TimeoutError(provider) == IF provider = "local" THEN LocalTimedOut ELSE SpriteTimedOut

\* Chunks the process writes to stdout.
StdoutChunks == { <<"C", "r", "e", "a", "t", "e", "d", " ", "P", "R", " ", "a", "t", " ">>, <<"h", "t", "t", "p", "s", ":", "/", "/", "g", "i", "t", "h", "u", "b", ".", "c", "o", "m", "/", "a", "/", "b", "/", "p", "u", "l", "l", "/", "1", "2">> }

MaxChunks == 2

\* The exit codes of a close event; a process ended by the signal closes
\* with code null, which takes the branch of the codes other than 0.
ExitCodes == {0, 1}

\* The promise after the executor ran: process spawned, handlers attached,
\* timer armed.
Spawned(provider) ==
  [provider |-> provider, timer |-> "armed", closed |-> FALSE,
   errored |-> FALSE, signals |-> 0, chunks |-> 0, stdout |-> << >>,
   exit |-> "none", events |-> << >>, promise |-> Pending]

InitRace ==
  /\ IdleServer
  /\ run = NoRun
  /\ probe \in { Spawned(p) : p \in ProviderClasses }

\* proc.stdout.on('data'): the text is appended to stdout.
StdoutData ==
  /\ ~probe.closed
  /\ probe.chunks < MaxChunks
  /\ \E chunk \in StdoutChunks :
       probe' = [probe EXCEPT !.stdout = @ \o chunk, !.chunks = @ + 1]
  /\ UNCHANGED <<config, tracker, req, log, pc, task, nextUuid, run>>

\* The callback of setTimeout: SIGTERM is sent and the promise is rejected.
TimerExpires ==
  /\ probe.timer = "armed"
  /\ probe' = [probe EXCEPT
       !.timer = "fired",
       !.signals = @ + 1,
       !.events = Append(@, "timer"),
       !.promise = SettlePromise(@, "rejected", TimeoutError(probe.provider))]
  /\ UNCHANGED <<config, tracker, req, log, pc, task, nextUuid, run>>

\* proc.on('close'): the timer is cleared; local resolves with stdout for
\* every code, sprites resolves for code 0 and rejects otherwise.
ProcClose ==
  /\ ~probe.closed
  /\ \E code \in ExitCodes :
       probe' = [probe EXCEPT
         !.closed = TRUE,
         !.exit = ExitOf(code),
         !.timer = ClearTimeout(@),
         !.events = Append(@, "close"),
         !.promise = IF code = 0 \/ probe.provider = "local"
                     THEN SettlePromise(@, "resolved", probe.stdout)
                     ELSE SettlePromise(@, "rejected", SpriteCommandFailed)]
  /\ UNCHANGED <<config, tracker, req, log, pc, task, nextUuid, run>>

\* proc.on('error'): the process could not be spawned or signalled; the
\* timer is cleared and the promise rejected with the error.
ProcError ==
  /\ ~probe.closed
  /\ ~probe.errored
  /\ probe' = [probe EXCEPT
       !.errored = TRUE,
       !.timer = ClearTimeout(@),
       !.events = Append(@, "error"),
       !.promise = SettlePromise(@, "rejected", SpawnFailed)]
  /\ UNCHANGED <<config, tracker, req, log, pc, task, nextUuid, run>>

NextRace == StdoutData \/ TimerExpires \/ ProcClose \/ ProcError

SpecRace == InitRace /\ [][NextRace]_vars

\* ------------------------------------------------------- reading the log

\* The responses delivery i has been sent.
Responses(i) == SelectSeq(log[i], LAMBDA e : e.ev = "respond")

\* Delivery i reached handleLinearWebhook.
Classified(i) == \E k \in 1..Len(log[i]) : log[i][k].ev = "next"

\* Delivery i got exactly one response, with this status.
AnsweredOnce(i, status) ==
  /\ Len(Responses(i)) = 1
  /\ Responses(i)[1].code = status

\* Delivery i was ignored with this reason.
Ignored(i, reason) ==
  /\ AnsweredOnce(i, 200)
  /\ Responses(i)[1].kind = reason

\* Nothing ran for delivery i but the route's own response: no task, no
\* tracker call, no tool run.
NoBackgroundWork(i) ==
  /\ pc[i] = "idle"
  /\ task[i] = NoTask
  /\ \A k \in 1..Len(log[i]) : log[i][k].ev \in {"next", "respond"}

DocOf(i) == req[i].raw.doc

\* ------------------------------------------------------------------ claims

\* The header of r is present and is the digest, under the configured secret,
\* of the body the verifier serialises.
HeaderMatches(r) ==
  /\ r.sig.present
  /\ r.sig.key = config.secret
  /\ r.sig.msg = [doc |-> r.raw.doc, form |-> "compact"]

\* C1: a delivery reaches handleLinearWebhook if and only if no webhook secret
\* is configured or its linear-signature header is present and equals the HMAC
\* of the body under the secret; every other delivery is answered 401 and
\* causes no classification, background work or tracker call.
C1_SignatureGate ==
  \A i \in DOMAIN req :
    LET pass == config.secret \in {NoVal, ""} \/ HeaderMatches(req[i])
    IN  /\ Classified(i) <=> pass
        /\ ~pass => /\ AnsweredOnce(i, 401)
                    /\ Len(log[i]) = 1
                    /\ NoBackgroundWork(i)

\* C1 witness: with a secret configured, a qualifying comment whose header is
\* a digest under another key has been answered 401.
C1_Witness ==
  \E i \in DOMAIN req :
    /\ config.secret = "k1"
    /\ req[i].sig.present
    /\ req[i].sig.key = "k2"
    /\ DocOf(i).type = "Comment"
    /\ DocOf(i).action = "create"
    /\ DocOf(i).data.body = BodyMention
    /\ DocOf(i).data.issueId = "I1"
    /\ AnsweredOnce(i, 401)

BodyChars == {"@", "x"}

\* The raw bodies that differ from raw in exactly one character of the comment
\* body.
OneByteMutations(raw) ==
  UNION { { [raw EXCEPT !.doc.data.body[k] = c] :
              c \in BodyChars \ {raw.doc.data.body[k]} } :
          k \in 1..Len(raw.doc.data.body) }

\* C2: with a secret configured, a delivery whose header is the HMAC of the raw
\* body as sent is accepted by verification, and every single-byte change of
\* that raw body under the same header is rejected.
C2_RawBodySignature ==
  \A i \in DOMAIN req :
    (Truthy(config.secret) /\ req[i].sig = Hmac(config.secret, req[i].raw))
      => /\ Classified(i)
         /\ \A m \in OneByteMutations(req[i].raw) :
              VerifyWebhookSignature(config.secret, [sig |-> req[i].sig, raw |-> m])
                # "next"

\* C3 as stated: every classified body whose type is not Comment or whose
\* action is not create is answered 200 "ignored" without background work.
C3_AsStated ==
  \A i \in DOMAIN req :
    (Classified(i) /\ (DocOf(i).type # "Comment" \/ DocOf(i).action # "create"))
      => /\ Ignored(i, "Not a comment creation")
         /\ NoBackgroundWork(i)

\* The body of delivery i has the fields linearWebhookPayloadSchema requires.
ValidBody(i) ==
  /\ DocOf(i).action \in {"create", "update", "remove"}
  /\ DocOf(i).type \in {"Issue", "Comment", "IssueLabel", "Project", "Cycle", "Reaction"}
  /\ DocOf(i).createdAt
  /\ \/ DocOf(i).data.issueFields
     \/ /\ DocOf(i).data.hasBody
        /\ ~(DocOf(i).data.issue.present /\ ~DocOf(i).data.issue.complete)

\* C3 (amended): every classified body that passes schema validation and whose
\* type is not Comment or whose action is not create is answered 200 "ignored"
\* without background work.
C3_NonCommentIgnored ==
  \A i \in DOMAIN req :
    (/\ Classified(i)
     /\ ValidBody(i)
     /\ (DocOf(i).type # "Comment" \/ DocOf(i).action # "create"))
      => /\ Ignored(i, "Not a comment creation")
         /\ NoBackgroundWork(i)

\* C3 witness: an Issue event whose data is a comment with the mention and an
\* issue id has been ignored.
C3_Witness ==
  \E i \in DOMAIN req :
    /\ Classified(i)
    /\ DocOf(i).type = "Issue"
    /\ DocOf(i).action = "create"
    /\ ~DocOf(i).data.issueFields
    /\ DocOf(i).data.body = BodyMention
    /\ DocOf(i).data.issueId = "I1"
    /\ Ignored(i, "Not a comment creation")

\* The spellings of the trigger token, letter by letter.
TokenSpellings ==
  <<{"@"}, {"c", "C"}, {"l", "L"}, {"a", "A"}, {"u", "U"}, {"d", "D"}, {"e", "E"}>>

\* body contains @claude in some letter case.
HasToken(body) ==
  \E k \in 1..Len(body) :
    /\ k + 6 <= Len(body)
    /\ \A j \in 1..7 : body[k + j - 1] \in TokenSpellings[j]

\* Delivery i is a classified, schema-valid comment creation whose data is
\* validated as a comment.
CommentCreation(i) ==
  /\ Classified(i)
  /\ ValidBody(i)
  /\ DocOf(i).type = "Comment"
  /\ DocOf(i).action = "create"
  /\ ~DocOf(i).data.issueFields

\* Delivery i started a background task.
TaskStarted(i) ==
  /\ AnsweredOnce(i, 202)
  /\ pc[i] # "idle"
  /\ \E k \in 1..Len(log[i]) : log[i][k].ev = "spawn"

NamesIssue(i) ==
  \/ DocOf(i).data.issueId \notin {NoVal, ""}
  \/ DocOf(i).data.issue.present

TaskEvents == {"spawn", "call", "addComment", "getIssueContext", "executeTask"}

\* The number of events of delivery i of this kind of call.
CountEv(i, ev) == Len(SelectSeq(log[i], LAMBDA e : e.ev = ev))

\* C6: for every accepted delivery the 202 response is in the log before every
\* event of its background task (the start, each tracker call, the tool run),
\* it is there from the step that received the delivery, and whatever the task
\* does afterwards it stays the only response, with status 202.
C6_ResponseBeforeTask ==
  \A i \in DOMAIN req :
    (pc[i] # "idle" \/ CountEv(i, "spawn") > 0)
      => /\ AnsweredOnce(i, 202)
         /\ \A k \in 1..Len(log[i]) :
              log[i][k].ev \in TaskEvents
                => \E j \in 1..(k - 1) : log[i][j].ev = "respond"

\* C6 witness: a task whose tool run timed out and whose result comment could
\* not be posted has ended, and its delivery has the one 202 response.
C6_Witness ==
  \E i \in DOMAIN req :
    /\ pc[i] = "done"
    /\ task[i].outcome = "timeout"
    /\ \E k \in 1..Len(log[i]) : log[i][k] = Ev("addComment", "result", 0)
    /\ AnsweredOnce(i, 202)

\* C7: a delivery has a background task exactly when it was answered 202, and
\* then exactly one (one start, one acknowledgment call, at most one tool run);
\* a task that has not ended can always take its next step whatever the other
\* tasks are doing, and no two tool runs share a working directory, also when
\* the deliveries name the same issue and comment.
C7_OneTaskPerDelivery ==
  /\ \A i \in DOMAIN req :
       /\ (\E k \in 1..Len(log[i]) : log[i][k] = Ev("respond", "accepted", 202))
            <=> pc[i] # "idle"
       /\ CountEv(i, "spawn") = (IF pc[i] # "idle" THEN 1 ELSE 0)
       /\ CountEv(i, "call") = (IF pc[i] # "idle" THEN 1 ELSE 0)
       /\ CountEv(i, "executeTask") <= 1
       /\ pc[i] \notin {"idle", "done"} => ENABLED TaskStep(i)
  /\ \A i, j \in DOMAIN req :
       (i # j /\ task[i].workDir # 0 /\ task[j].workDir # 0)
         => task[i].workDir # task[j].workDir

\* C7 witness: two deliveries of the same comment on the same issue have each
\* posted an acknowledgment and run the tool, in different working
\* directories, and both tasks are still in flight.
C7_Witness ==
  \E i, j \in DOMAIN req :
    /\ i # j
    /\ task[i].commentId = "c1"
    /\ task[j].commentId = "c1"
    /\ task[i].issueId = task[j].issueId
    /\ pc[i] = "post"
    /\ pc[j] = "post"
    /\ \E k \in 1..Len(log[i]) : log[i][k] = Ev("addComment", "ack", 1)
    /\ \E k \in 1..Len(log[j]) : log[j][k] = Ev("addComment", "ack", 1)
    /\ task[i].workDir # 0
    /\ task[j].workDir # 0
    /\ task[i].workDir # task[j].workDir

\* A comment that explains the outcome of a task: the result, "Could not
\* determine repository" or "Unexpected Error".
Explanatory(e) == e.ev = "addComment" /\ e.kind \in {"result", "norepo", "error"}

\* The explanatory comments of task i that the tracker accepted, and the
\* attempts it rejected.
ExplanatoryPosted(i) ==
  Len(SelectSeq(log[i], LAMBDA e : Explanatory(e) /\ e.code = 1))

ExplanatoryFailed(i) ==
  Len(SelectSeq(log[i], LAMBDA e : Explanatory(e) /\ e.code = 0))

\* C8 as stated: every task that has ended has exactly one explanatory comment
\* posted on its issue.
C8_AsStated ==
  \A i \in DOMAIN req :
    (pc[i] = "done") => ExplanatoryPosted(i) = 1

\* C8 (amended): a task posts no explanatory comment before it ends and never
\* two; a task that has ended has tried to post one, and has posted exactly one
\* unless the tracker rejected an explanatory comment.
C8_OneExplanatoryComment ==
  \A i \in DOMAIN req :
    /\ ExplanatoryPosted(i) <= 1
    /\ pc[i] # "done" => ExplanatoryPosted(i) = 0
    /\ pc[i] = "done"
         => /\ ExplanatoryPosted(i) + ExplanatoryFailed(i) >= 1
            /\ ExplanatoryFailed(i) = 0 => ExplanatoryPosted(i) = 1

\* C8 witness: a task whose trigger comment was not found among the issue's
\* comments has ended with one explanatory comment posted.
C8_Witness ==
  \E i \in DOMAIN req :
    /\ pc[i] = "done"
    /\ \E k \in 1..Len(log[i]) : log[i][k] = Ev("getIssueContext", "notfound", 0)
    /\ ExplanatoryPosted(i) = 1
    /\ ExplanatoryFailed(i) = 0

\* C9: a failed acknowledgment post is followed by the context fetch, and a
\* failed result post ends the task without an "Unexpected Error" comment.
C9_PostingFailuresSwallowed ==
  \A i \in DOMAIN req :
    \A k \in 1..Len(log[i]) :
      /\ log[i][k] = Ev("addComment", "ack", 0)
           => /\ pc[i] = "context" \/ k < Len(log[i])
              /\ k < Len(log[i]) => log[i][k + 1].ev = "getIssueContext"
      /\ log[i][k] = Ev("addComment", "result", 0)
           => /\ k = Len(log[i])
              /\ pc[i] = "done"

\* label is repo:owner/name: after the prefix come a non-empty owner, a slash
\* and a name character.
IsRepoLabel(label) ==
  /\ StartsWith(label, RepoPrefix)
  /\ \E p \in (Len(RepoPrefix) + 2)..(Len(label) - 1) :
       /\ label[p] = "/"
       /\ label[p + 1] # "/"
       /\ \A j \in (Len(RepoPrefix) + 1)..(p - 1) : label[j] # "/"

\* text is owner/name.
IsSlug(text) == IsRepoLabel(RepoPrefix \o text)

\* C10: a GitHub URL in the description decides the repository; without one a
\* repo:owner/name label does; without either the default repository does;
\* when none of the three gives an owner and a name the repository is absent.
C10_RepositoryPriority ==
  probe.phase = "resolved" =>
    IF RepositoryFromDescription(probe.description).present
    THEN probe.repository = RepositoryFromDescription(probe.description)
    ELSE IF \E k \in 1..Len(probe.labels) : IsRepoLabel(probe.labels[k])
    THEN /\ probe.repository.present
         /\ \E k \in 1..Len(probe.labels) :
              /\ IsRepoLabel(probe.labels[k])
              /\ StartsWith(probe.labels[k],
                   RepoPrefix \o probe.repository.owner \o <<"/">>
                     \o probe.repository.name)
    ELSE IF IsSlug(probe.defaultRepo)
    THEN probe.repository = RepositoryOf(SplitFirst(probe.defaultRepo),
                                         SplitSecond(probe.defaultRepo))
    ELSE ~probe.repository.present

\* The names of the steps the run has performed.
StepNames == { run.steps[k].name : k \in 1..Len(run.steps) }

\* No step of the run has failed.
NoStepFailed == \A k \in 1..Len(run.steps) : run.steps[k].how = "ok"

\* C11: a task whose context has no repository still runs the tool, without
\* the clone and git identity steps, under every provider, and its result has
\* no pull request URL whatever the tool printed.
C11_StandaloneRun ==
  (run.pc = "returned" /\ ~run.hasRepository /\ NoStepFailed)
    => /\ "spawn" \in StepNames
       /\ "clone" \notin StepNames
       /\ "identity" \notin StepNames
       /\ run.result.prUrl.kind = "undefined"

\* The tool's run ended by the 30 minute timer.
TimedOut == \E k \in 1..Len(run.steps) : run.steps[k] = Did("spawn", "timeout")

\* The result is a failure whose error text says "timed out".
ReportsTimeout ==
  /\ run.result.success = JsonBool(FALSE)
  /\ run.result.error.kind = "string"
  /\ Includes(run.result.error.text, <<"t", "i", "m", "e", "d", " ", "o", "u", "t">>)

\* C12 as stated: when the tool timed out, the returned result is a failure
\* that reports the timeout and the workspace or sandbox no longer exists.
C12_AsStated ==
  (run.pc = "returned" /\ TimedOut)
    => /\ ReportsTimeout
       /\ run.workspace # "exists"

\* C12 (amended): when the tool timed out the result is a failure that reports
\* the timeout; the local provider returns at once and leaves the working
\* directory in place, the sprites provider tries to delete the sandbox before
\* it returns, and the sandbox is gone exactly when that deletion succeeded.
C12_TimeoutFailure ==
  TimedOut
    => /\ ReportsTimeout
       /\ run.provider = "local"
            => /\ run.pc = "returned"
               /\ run.workspace = "exists"
               /\ "cleanup" \notin StepNames
       /\ run.provider = "sprites"
            => /\ run.pc \in {"cleanup", "returned"}
               /\ run.pc = "returned"
                    => /\ run.steps[Len(run.steps)].name = "cleanup"
                       /\ run.workspace = "deleted"
                            <=> run.steps[Len(run.steps)].how = "ok"

\* C12 witness: a sprites task with a repository timed out and returned a
\* failure after deleting its sandbox.
C12_Witness ==
  /\ run.provider = "sprites"
  /\ run.pc = "returned"
  /\ TimedOut
  /\ run.result.error = JsonString(SpriteTimedOut)
  /\ run.workspace = "deleted"

\* output has a fenced json block that starts at k: a fence with "json" at k
\* and a closing fence after it.
FencedBlockAt(output, k) ==
  /\ MatchAt(output, FenceJson, k)
  /\ \E j \in (k + Len(FenceJson))..Len(output) : MatchAt(output, Fence, j)

\* The text of the block that starts at k, up to the next fence, without the
\* whitespace around it.
FencedBlockText(output, k) ==
  TrimText(SubSeq(output, k + Len(FenceJson),
                  FirstIndexOf(output, Fence, k + Len(FenceJson)) - 1))

\* text is JSON for an object.
IsJsonObjectText(text) ==
  /\ text # << >>
  /\ text[1] = "{"
  /\ JsonParseText(text).ok

\* The fenced json blocks of output that parse as a JSON object.
ObjectBlocks(output) ==
  { k \in 1..Len(output) :
      FencedBlockAt(output, k) /\ IsJsonObjectText(FencedBlockText(output, k)) }

\* C13: whenever the console text has a fenced json block that parses as a JSON
\* object, the result's success, prUrl, summary and error are the fields of
\* that object (of the first such block), a missing success giving false,
\* whatever else the text contains.
C13_SelfReportAuthoritative ==
  (probe.phase = "parsed" /\ ObjectBlocks(probe.output) # {})
    => LET k == CHOOSE k \in ObjectBlocks(probe.output) :
                  \A j \in ObjectBlocks(probe.output) : k <= j
           obj == JsonParseText(FencedBlockText(probe.output, k)).obj
       IN  /\ probe.result.success =
                (IF obj.success.kind = "undefined" THEN JsonBool(FALSE) ELSE obj.success)
           /\ probe.result.prUrl = obj.prUrl
           /\ probe.result.summary = obj.summary
           /\ probe.result.error = obj.error

\* output has no fenced json block.
NoFencedBlock(output) == \A k \in 1..Len(output) : ~FencedBlockAt(output, k)

\* text is https://github.com/<owner>/<repo>/pull/<number>: after the host come
\* exactly four segments, a non-empty owner and repository, "pull" and digits.
IsPullUrlText(text) ==
  /\ StartsWith(text, PullPrefix)
  /\ LET rest == SubSeq(text, Len(PullPrefix) + 1, Len(text))
         slashes == { i \in 1..Len(rest) : rest[i] = "/" }
     IN  /\ Cardinality(slashes) = 3
         /\ \E a, b, c \in slashes :
              /\ 1 < a /\ a + 1 < b /\ b < c /\ c < Len(rest)
              /\ SubSeq(rest, b + 1, c - 1) = <<"p", "u", "l", "l">>
              /\ \A i \in (c + 1)..Len(rest) : rest[i] \in Digits

\* The occurrences <<k, e>> of a pull request URL in output, each taken with
\* all the digits of its number.
PullUrlOccurrences(output) ==
  { ke \in { k \in 1..Len(output) : MatchAt(output, PullPrefix, k) }
            \X { e \in 1..Len(output) :
                   /\ output[e] \in Digits
                   /\ e = Len(output) \/ output[e + 1] \notin Digits } :
      /\ ke[1] < ke[2]
      /\ IsPullUrlText(SubSeq(output, ke[1], ke[2])) }

\* output contains "error", "failed" or "Error".
ContainsFailureToken(output) ==
  \E k \in 1..Len(output) :
     \/ /\ k + 4 <= Len(output)
        /\ SubSeq(output, k, k + 4) \in { <<"e", "r", "r", "o", "r">>,
                                          <<"E", "r", "r", "o", "r">> }
     \/ /\ k + 5 <= Len(output)
        /\ SubSeq(output, k, k + 5) = <<"f", "a", "i", "l", "e", "d">>

\* t is the last n characters of s, all of s when s is shorter.
IsLastChars(t, s, n) ==
  /\ Len(t) = (IF Len(s) < n THEN Len(s) ELSE n)
  /\ \A i \in 1..Len(t) : t[i] = s[Len(s) - Len(t) + i]

\* C14: when the console text has no fenced json block and contains a pull
\* request URL https://github.com/<owner>/<repo>/pull/<number>, the result is a
\* success whose prUrl is the first such URL, failure tokens in the text
\* notwithstanding.
C14_PullUrlMeansSuccess ==
  (/\ probe.phase = "parsed"
   /\ NoFencedBlock(probe.output)
   /\ PullUrlOccurrences(probe.output) # {})
    => LET first == CHOOSE ke \in PullUrlOccurrences(probe.output) :
                      \A other \in PullUrlOccurrences(probe.output) :
                         ke[1] <= other[1]
       IN  /\ probe.result.success = JsonBool(TRUE)
           /\ probe.result.prUrl =
                JsonString(SubSeq(probe.output, first[1], first[2]))
           /\ probe.result.error.kind = "undefined"

\* C14 witness: a text that begins with "error", has no fenced block and holds
\* two pull request URLs was parsed to a success carrying the first URL.
C14_Witness ==
  /\ probe.phase = "parsed"
  /\ NoFencedBlock(probe.output)
  /\ ContainsFailureToken(probe.output)
  /\ Cardinality(PullUrlOccurrences(probe.output)) = 2
  /\ probe.result.success = JsonBool(TRUE)
  /\ probe.result.prUrl = JsonString(PullUrl42)

\* C15: when the console text has neither a fenced json block nor a pull
\* request URL, the result is a failure without prUrl; with one of the tokens
\* "error", "failed", "Error" in the text the summary is its last 1000
\* characters, and otherwise the error says the output could not be parsed and
\* the summary is the last 500 characters (the whole text when shorter).
C15_NoBlockNoUrl ==
  (/\ probe.phase = "parsed"
   /\ NoFencedBlock(probe.output)
   /\ PullUrlOccurrences(probe.output) = {})
    => /\ probe.result.success = JsonBool(FALSE)
       /\ probe.result.prUrl.kind = "undefined"
       /\ probe.result.summary.kind = "string"
       /\ IF ContainsFailureToken(probe.output)
          THEN IsLastChars(probe.result.summary.text, probe.output, 1000)
          ELSE /\ probe.result.error = JsonString(CouldNotParse)
               /\ IsLastChars(probe.result.summary.text, probe.output, 500)

\* C15 witness: a text of more than 1000 characters with a failure token and
\* neither block nor URL was parsed; its summary is 1000 characters long.
C15_Witness ==
  /\ probe.phase = "parsed"
  /\ NoFencedBlock(probe.output)
  /\ PullUrlOccurrences(probe.output) = {}
  /\ ContainsFailureToken(probe.output)
  /\ Len(probe.output) > 1000
  /\ probe.result.success = JsonBool(FALSE)
  /\ Len(probe.result.summary.text) = 1000

\* C15 witness of the other branch: a text of 500 to 1000 characters without
\* token, block or URL was parsed; its summary is 500 characters long and its
\* error is the could-not-parse message.
C15_WitnessUnparsed ==
  /\ probe.phase = "parsed"
  /\ NoFencedBlock(probe.output)
  /\ PullUrlOccurrences(probe.output) = {}
  /\ ~ContainsFailureToken(probe.output)
  /\ Len(probe.output) > 500
  /\ Len(probe.result.summary.text) = 500
  /\ probe.result.error = JsonString(CouldNotParse)

\* The places of body where the mention token stands, in any letter case.
MentionPlaces(body) ==
  { k \in 1..Len(body) : MatchAtNoCase(body, MentionToken, k) }

\* t is s without the whitespace at its two ends.
IsTrimOf(t, s) ==
  IF t = << >> THEN \A i \in 1..Len(s) : s[i] \in Whitespace
  ELSE /\ t[1] \notin Whitespace
       /\ t[Len(t)] \notin Whitespace
       /\ \E a \in 0..(Len(s) - Len(t)) :
            /\ SubSeq(s, a + 1, a + Len(t)) = t
            /\ \A i \in 1..a : s[i] \in Whitespace
            /\ \A i \in (a + Len(t) + 1)..Len(s) : s[i] \in Whitespace

\* C16 as the claim states it: without a mention the instruction is the body;
\* with one it is the body from which the mention token and the whitespace
\* that follows it were removed, the text before the mention and the rest of
\* the body being kept as they are.
C16_AsStated ==
  probe.phase = "extracted"
    => IF MentionPlaces(probe.body) = {} THEN probe.instruction = probe.body
       ELSE LET k == CHOOSE k \in MentionPlaces(probe.body) :
                       \A j \in MentionPlaces(probe.body) : k <= j
            IN  probe.instruction =
                  SubSeq(probe.body, 1, k - 1)
                    \o SubSeq(probe.body,
                              SkipWs(probe.body, k + Len(MentionToken)),
                              Len(probe.body))

\* C16, amended: without a mention the instruction is the body unchanged; with
\* one it is the text that follows the first mention token, without the
\* whitespace at its two ends. The text before the mention is not part of it.
C16_TextAfterMention ==
  probe.phase = "extracted"
    => IF MentionPlaces(probe.body) = {} THEN probe.instruction = probe.body
       ELSE LET k == CHOOSE k \in MentionPlaces(probe.body) :
                       \A j \in MentionPlaces(probe.body) : k <= j
            IN  IsTrimOf(probe.instruction,
                         SubSeq(probe.body, k + Len(MentionToken),
                                Len(probe.body)))

\* C16 witness: "hi @Claude fix it  " was reduced to "fix it".
C16_Witness ==
  /\ probe.phase = "extracted"
  /\ MentionPlaces(probe.body) = {4}
  /\ SubSeq(probe.body, 1, 3) = <<"h", "i", " ">>
  /\ Len(probe.body) > 4 + Len(MentionToken) + 6
  /\ probe.instruction = <<"f", "i", "x", " ", "i", "t">>

\* C17: in every issue context produced, exactly one comment is flagged as the
\* trigger, it is the comment whose id was asked for and the one reported as
\* the trigger comment, and the comments (the retrieved ones, all of them) are
\* in ascending order of creation time.
C17_OneTriggerSorted ==
  (probe.phase = "fetched" /\ probe.context.ok)
    => LET cs == probe.context.comments
           triggers == { k \in 1..Len(cs) : cs[k].isTrigger }
       IN  /\ Cardinality(triggers) = 1
           /\ \A k \in triggers :
                /\ cs[k].id = probe.triggerCommentId
                /\ cs[k].id = probe.context.triggerCommentId
           /\ \A a, b \in 1..Len(cs) : a < b => cs[a].createdAt <= cs[b].createdAt
           /\ Len(cs) = Len(probe.comments)
           /\ \A k \in 1..Len(probe.comments) :
                \E j \in 1..Len(cs) :
                   /\ cs[j].id = probe.comments[k].id
                   /\ cs[j].createdAt = probe.comments[k].createdAt

\* C17 witness: three comments retrieved latest first, the trigger among them,
\* came out oldest first with the trigger flagged in the middle.
C17_Witness ==
  /\ probe.phase = "fetched"
  /\ probe.context.ok
  /\ Len(probe.comments) = 3
  /\ probe.comments[1].createdAt > probe.comments[2].createdAt
  /\ probe.comments[2].createdAt > probe.comments[3].createdAt
  /\ probe.context.comments[2].isTrigger
  /\ probe.context.comments[2].id = "c1"
  /\ probe.context.comments[1].id = probe.comments[3].id

StatedOrder ==
  <<"create", "clone", "identity", "prompt", "spawn", "collect", "cleanup">>

\* The order of sprites.ts: the git identity is configured before the clone.
SpritesOrder ==
  <<"create", "identity", "clone", "prompt", "spawn", "collect", "cleanup">>

\* The place of the step called name in order.
PlaceIn(order, name) == CHOOSE p \in 1..Len(order) : order[p] = name

\* The steps of the run were taken in the given order, none of them twice.
InOrder(order) ==
  \A a, b \in 1..Len(run.steps) :
     a < b => PlaceIn(order, run.steps[a].name) < PlaceIn(order, run.steps[b].name)

\* The steps a run without repository leaves out.
SkippedSteps == IF run.hasRepository THEN {} ELSE {"clone", "identity"}

\* Every step that precedes the b-th step of the run in order and is not left
\* out was taken before it and succeeded.
PredecessorsDone(order, b) ==
  \A p \in 1..(PlaceIn(order, run.steps[b].name) - 1) :
     order[p] \notin SkippedSteps
       => \E a \in 1..(b - 1) : run.steps[a] = Did(order[p], "ok")

\* C19 as the claim states it: under every provider the steps are taken in
\* the order create, clone, identity, prompt, spawn, collect, cleanup, each at
\* most once and only after every earlier step that is not left out has
\* succeeded; clone and identity, and only they, are left out, exactly when
\* there is no repository.
C19_AsStated ==
  /\ InOrder(StatedOrder)
  /\ \A b \in 1..Len(run.steps) : PredecessorsDone(StatedOrder, b)
  /\ ("clone" \in StepNames \/ "identity" \in StepNames) => run.hasRepository
  /\ (run.pc = "returned" /\ NoStepFailed)
       => {"create", "prompt", "spawn", "collect"} \subseteq StepNames

\* C19, amended: each provider takes its steps in its own order, which for
\* the sandbox provider has the identity before the clone, each step at most
\* once; a step other than the sandbox provider's cleanup is taken only after
\* every earlier step that is not left out has succeeded, and the sandbox
\* provider's cleanup is the last step of every run that took any; clone and
\* identity are taken only with a repository, and without one the local
\* provider leaves out just these two while the sandbox provider takes no
\* step at all.
C19_StepsInProviderOrder ==
  LET order == IF run.provider = "sprites" THEN SpritesOrder ELSE StatedOrder
  IN  /\ InOrder(order)
      /\ \A b \in 1..Len(run.steps) :
           /\ (run.steps[b].name # "cleanup" \/ run.provider = "local")
                => PredecessorsDone(order, b)
           /\ run.steps[b].name = "cleanup" => (b = Len(run.steps) /\ b > 1)
      /\ ("clone" \in StepNames \/ "identity" \in StepNames) => run.hasRepository
      /\ (run.provider = "sprites" /\ ~run.hasRepository) => run.steps = << >>
      /\ (run.pc = "returned" /\ run.provider = "sprites" /\ run.steps # << >>)
           => run.steps[Len(run.steps)].name = "cleanup"
      /\ (run.pc = "returned" /\ NoStepFailed
            /\ (run.provider = "local" \/ run.hasRepository))
           => {"create", "prompt", "spawn", "collect"} \cup
                (IF run.hasRepository THEN {"clone", "identity"} ELSE {})
                  \subseteq StepNames

\* C19 witness: a run of the sandbox provider has returned after all seven
\* steps, the identity configured before the clone.
C19_Witness ==
  /\ run.pc = "returned"
  /\ run.provider = "sprites"
  /\ NoStepFailed
  /\ [k \in 1..Len(run.steps) |-> run.steps[k].name] = SpritesOrder

\* C19 witness for the local provider: a run without repository has returned
\* after create, prompt, spawn, collect and cleanup.
C19_WitnessStandalone ==
  /\ run.pc = "returned"
  /\ run.provider = "local"
  /\ ~run.hasRepository
  /\ [k \in 1..Len(run.steps) |-> run.steps[k].name]
       = <<"create", "prompt", "spawn", "collect", "cleanup">>

\* C20 as the claim states it: when the local provider returns, the working
\* directory has been deleted exactly when the result is a success.
C20_AsStated ==
  (run.provider = "local" /\ run.pc = "returned")
    => (run.workspace = "deleted" <=> TruthyValue(run.result.success))

\* C20, amended: when the local provider returns a success, its last step was
\* the removal of the working directory, which is gone unless that removal
\* failed; when it returns a failure it has not tried to remove the directory,
\* which is in place if it was created.
C20_LocalCleanupOnSuccess ==
  (run.provider = "local" /\ run.pc = "returned")
    => /\ run.workspace = "deleted" => TruthyValue(run.result.success)
       /\ TruthyValue(run.result.success)
            => /\ run.steps[Len(run.steps)].name = "cleanup"
               /\ run.workspace = "deleted" <=> run.steps[Len(run.steps)].how = "ok"
       /\ ~TruthyValue(run.result.success)
            => /\ "cleanup" \notin StepNames
               /\ run.workspace =
                    (IF \E k \in 1..Len(run.steps) : run.steps[k] = Did("create", "ok")
                     THEN "exists" ELSE "none")

\* C20 witness: the local provider has returned a success and the working
\* directory is deleted.
C20_Witness ==
  /\ run.provider = "local"
  /\ run.pc = "returned"
  /\ run.result.success = JsonBool(TRUE)
  /\ run.workspace = "deleted"
  /\ "collect" \in StepNames

\* C20 witness of a failure path: the local provider has returned after the
\* tool ran and reported a failure, and the working directory is in place.
C20_WitnessLeftInPlace ==
  /\ run.provider = "local"
  /\ run.pc = "returned"
  /\ "collect" \in StepNames
  /\ run.result.success = JsonBool(FALSE)
  /\ run.workspace = "exists"

\* The places of the run's steps that are deletions of the workspace.
CleanupPlaces == { k \in 1..Len(run.steps) : run.steps[k].name = "cleanup" }

\* The message with which a step of the sandbox provider rejects.
SpriteMessage(how) ==
  CASE how = "timeout" -> SpriteTimedOut
    [] how = "spawnError" -> SpawnFailed
    [] OTHER -> SpriteCommandFailed

\* C21: a run of the sandbox provider that tried to create a sandbox tries to
\* delete it exactly once, as its last step before executeTask returns,
\* whichever step failed or succeeded; the result returned is the one the
\* steps before the deletion determine, whether the deletion succeeded or not.
C21_SandboxDeletedOnce ==
  run.provider = "sprites"
    => /\ Cardinality(CleanupPlaces) <= 1
       /\ (run.pc = "returned" /\ "create" \in StepNames)
            => /\ CleanupPlaces = {Len(run.steps)}
               /\ LET before == SubSeq(run.steps, 1, Len(run.steps) - 1)
                      failed == { k \in 1..Len(before) : before[k].how # "ok" }
                  IN  IF failed = {}
                      THEN /\ before[Len(before)] = Did("collect", "ok")
                           /\ run.result = ParseClaudeOutput(run.output)
                      ELSE /\ failed = {Len(before)}
                           /\ run.result =
                                FailureResult(SpriteMessage(before[Len(before)].how))

\* C21 witness: the sandbox provider has returned after a failed git setup
\* and a deletion that failed too; the result is the failure of the setup.
C21_Witness ==
  /\ run.provider = "sprites"
  /\ run.pc = "returned"
  /\ run.steps = <<Did("create", "ok"), Did("identity", "failed"),
                   Did("cleanup", "failed")>>
  /\ run.result = FailureResult(SpriteCommandFailed)

\* C21 witness of a run whose tool ran: every step succeeded but the deletion,
\* and the result is the parsed output.
C21_WitnessParsed ==
  /\ run.provider = "sprites"
  /\ run.pc = "returned"
  /\ Len(run.steps) = 7
  /\ run.steps[7] = Did("cleanup", "failed")
  /\ run.result = ParseClaudeOutput(run.output)
  /\ run.result.success = JsonBool(TRUE)

\* C22: under every provider, a run whose tool exited with a nonzero code
\* still has the tool's standard output parsed, and its result is what
\* parseClaudeOutput makes of that output.
C22_ParserDecides ==
  (run.pc = "returned" /\ run.exit = "nonzero")
    => /\ "collect" \in StepNames
       /\ run.result = ParseClaudeOutput(run.output)

\* The places of output at which a fenced json block starts.
FencedBlocks(output) == { k \in 1..Len(output) : FencedBlockAt(output, k) }

\* C23: when the first fenced json block of the console text does not parse
\* as JSON, the result is a failure without pull request URL, whatever URL
\* the rest of the text holds.
C23_UnparsableBlockFails ==
  (/\ probe.phase = "parsed"
   /\ FencedBlocks(probe.output) # {}
   /\ LET k == CHOOSE k \in FencedBlocks(probe.output) :
                  \A j \in FencedBlocks(probe.output) : k <= j
      IN  ~JsonParseText(FencedBlockText(probe.output, k)).ok)
    => /\ probe.result.success = JsonBool(FALSE)
       /\ probe.result.prUrl.kind = "undefined"

\* The comment of probe has been posted by the part_002 revision.
PostedByCompute == probe.phase # "pending" /\ probe.variant = "compute"

\* body is text cut for the budget: text itself when it has at most 10,000
\* characters, and otherwise its first 9,900 characters and the marker.
IsCutForBudget(body, text) ==
  IF Len(text) <= 10000 THEN body = text
  ELSE /\ Len(body) = 9900 + Len(TruncatedMarker)
       /\ \A i \in 1..9900 : body[i] = text[i]
       /\ EndsWith(body, <<"(", "t", "r", "u", "n", "c", "a", "t", "e", "d", ")">>)

\* The result comment of probe is the composed text cut for the budget,
\* followed by the request id footer.
ResultCommentCut ==
  (PostedByCompute /\ probe.kind = "result")
    => LET footer == RequestIdFooter(RequestId)
       IN  /\ EndsWith(probe.body, footer)
           /\ IsCutForBudget(SubSeq(probe.body, 1, Len(probe.body) - Len(footer)),
                             ComposedResultComment(probe.result))

\* C24 as the claim states it: the result comment is the composed text cut
\* for the budget, and no comment the task posts as an outcome, result or
\* error, is longer than the budget and the request id footer.
C24_AsStated ==
  /\ ResultCommentCut
  /\ (PostedByCompute /\ probe.kind \in {"result", "error"})
       => Len(probe.body) <= 10000 + Len(RequestIdFooter(RequestId))

\* C24, amended: the result comment is the composed text cut for the budget
\* and is never longer than the budget and the request id footer; the error
\* comment holds the whole message of the error caught, however long.
C24_ResultCommentTruncated ==
  /\ ResultCommentCut
  /\ (PostedByCompute /\ probe.kind = "result")
       => Len(probe.body) <= 10000 + Len(RequestIdFooter(RequestId))
  /\ (PostedByCompute /\ probe.kind = "error")
       => /\ Len(probe.body) =
               Len(probe.message) + Len(ErrorComment("compute", << >>, RequestId))
          /\ \E k \in 1..Len(probe.body) :
               SubSeq(probe.body, k, k + Len(probe.message) - 1) = probe.message

\* C24 witness: a composed text of 10,001 characters was posted as 9,900
\* characters, the marker and the footer.
C24_Witness ==
  /\ PostedByCompute
  /\ probe.kind = "result"
  /\ Len(ComposedResultComment(probe.result)) = 10001
  /\ Len(probe.body) = 9900 + Len(TruncatedMarker) + Len(RequestIdFooter(RequestId))

\* C24 witness of the other side of the budget: a composed text of exactly
\* 10,000 characters was posted whole.
C24_WitnessWhole ==
  /\ PostedByCompute
  /\ probe.kind = "result"
  /\ Len(ComposedResultComment(probe.result)) = 10000
  /\ Len(probe.body) = 10000 + Len(RequestIdFooter(RequestId))

\* body has the success form: the success headline and the pull request line.
IsSuccessForm(body) ==
  /\ StartsWith(body, CheckMark)
  /\ Includes(body, <<"*", "*", "P", "u", "l", "l", " ", "R", "e", "q", "u", "e", "s", "t", ":", "*", "*", " ">>)

\* body has the failure form: the failure headline.
IsFailureForm(body) ==
  StartsWith(body, CrossMark \o <<" ", "*", "*", "I", "m", "p", "l", "e", "m", "e", "n", "t", "a", "t", "i", "o", "n", " ", "F", "a", "i", "l", "e", "d", "*", "*">>)

\* C25: the result comment has the success form exactly when the result has
\* success = true and the failure form exactly when it has not.
C25_FormFollowsSuccess ==
  (probe.phase # "pending" /\ probe.kind = "result")
    => /\ IsSuccessForm(probe.body) <=> probe.result.success = JsonBool(TRUE)
       /\ IsFailureForm(probe.body) <=> probe.result.success # JsonBool(TRUE)

\* C25 restricted to the revision that has the two forms: in
\* webhook-handler.ts a successful result is reported in the failure form
\* only when it has no pull request URL.
C25_ExecutorForms ==
  (probe.phase # "pending" /\ probe.kind = "result" /\ probe.variant = "executor")
    => /\ IsSuccessForm(probe.body) <=> ~IsFailureForm(probe.body)
       /\ IsSuccessForm(probe.body)
            <=> (probe.result.success = JsonBool(TRUE)
                   /\ probe.result.prUrl.kind = "string")

\* c is a comment the system posted itself.
IsOwnComment(c) == c \in OwnComments

\* C26: the comments section of a prompt lists no comment the system posted
\* itself; it lists the most recent three of the other comments, oldest
\* first.
C26_OwnCommentsExcluded ==
  probe.phase = "built"
    => /\ \A k \in 1..Len(probe.listed) : ~IsOwnComment(probe.listed[k])
       /\ LET others == SelectSeq(probe.comments, LAMBDA c : ~IsOwnComment(c))
          IN  probe.listed =
                (IF Len(others) <= 3 THEN others
                 ELSE SubSeq(others, Len(others) - 2, Len(others)))

\* C27: two tasks that run at the same time, also two tasks for the same
\* issue started in the same instant, have different workspace identifiers:
\* working directory or sandbox name, and prompt file.
C27_DistinctWorkspaces ==
  LET running(t) == probe.tasks[t].at \in {"named", "prompted"}
  IN  (running(1) /\ running(2))
        => /\ probe.tasks[1].workspace # probe.tasks[2].workspace
           /\ (probe.tasks[1].at = "prompted" /\ probe.tasks[2].at = "prompted")
                => probe.tasks[1].promptFile # probe.tasks[2].promptFile

\* C28: every COMPUTE_PROVIDER value that passed the validation of the
\* configuration selects one of the two provider classes, so that
\* getComputeProvider does not throw, and each of the two classes is
\* selected by some value the validation accepts.
C28_ValidatedProviderSelects ==
  /\ config.provider \in ConfigProviders
       => GetComputeProvider(config.provider) \in ProviderClasses
  /\ \A class \in ProviderClasses :
       \E p \in ConfigProviders : GetComputeProvider(p) = class

\* The place of the first event of the kind in the events of the race, 0
\* when there is none.
FirstPlace(kind) ==
  IF \E k \in 1..Len(probe.events) : probe.events[k] = kind
  THEN CHOOSE k \in 1..Len(probe.events) :
         /\ probe.events[k] = kind
         /\ \A j \in 1..(k - 1) : probe.events[j] # kind
  ELSE 0

\* C29: the timer and the events of the process race safely. The promise
\* is settled by the first of them and by nothing after it; the signal is
\* sent once and only when the timer expired before the close and the
\* error; when the close or the error came first the timer is cancelled;
\* once the timer expired the outcome is the timeout failure whatever was
\* written to stdout and whatever closes later.
C29_TimerRace ==
  /\ (probe.promise.state = "pending") <=> (probe.events = << >>)
  /\ probe.signals = (IF probe.timer = "fired" THEN 1 ELSE 0)
  /\ probe.timer = "fired"
       => /\ probe.events[1] = "timer"
          /\ probe.promise = [state |-> "rejected", value |-> TimeoutError(probe.provider)]
  /\ (probe.events # << >> /\ probe.events[1] \in {"close", "error"})
       => /\ probe.timer = "cancelled"
          /\ probe.signals = 0
          /\ FirstPlace("timer") = 0
  /\ (probe.events # << >> /\ probe.events[1] = "error")
       => probe.promise = [state |-> "rejected", value |-> SpawnFailed]
  /\ (probe.events # << >> /\ probe.events[1] = "close")
       => probe.promise =
            (IF probe.exit = "zero" \/ probe.provider = "local"
             THEN [state |-> "resolved", value |-> probe.stdout]
             ELSE [state |-> "rejected", value |-> SpriteCommandFailed])

\* C29, in steps: a settled promise is not settled again.
C29_SettledOnce ==
  [][probe.promise.state # "pending" => probe'.promise = probe.promise]_vars

\* The timer expired after output was written and the process closed with
\* code 0 afterwards: the outcome is the timeout.
C29_Witness ==
  /\ probe.events = <<"timer", "close">>
  /\ probe.exit = "zero"
  /\ probe.stdout # << >>
  /\ probe.promise.state = "rejected"

\* The process closed first: the timer is cancelled and no signal was sent.
C29_WitnessClosedFirst ==
  /\ probe.events # << >>
  /\ probe.events[1] = "close"
  /\ probe.timer = "cancelled"
  /\ probe.promise.state = "resolved"
  /\ probe.stdout # << >>

\* C30: a comment the system posted, delivered back to the endpoint as a
\* comment-creation webhook, is not accepted with 202 and starts no task.
C30_OwnCommentNotAccepted ==
  probe.phase = "delivered" => (probe.status # 202 /\ ~probe.started)

====
